---- MODULE Spec2Model ----
(***************************************************************************)
(* Model of the distributed-coordination layer of toeic4all-apis:          *)
(* RedisLock, RedisCache and RateLimiter (app/db/redis_client.py), the     *)
(* cache-aside operations and the cache clearing of CachedQueryService     *)
(* (app/services/cache_service.py) and the admin clear-cache endpoint      *)
(* (app/main.py), over one shared Redis store; RateLimitMiddleware          *)
(* (app/middleware/rate_limit.py) and the semaphore of QueryService        *)
(* (app/services/query_service.py); AsyncMongoDBClient with its health     *)
(* check (app/db/mongodb.py).                                              *)
(*                                                                         *)
(* Python values are modelled without floats.  Of the TTL of a cache entry *)
(* the model keeps the seconds given at the SET and whether any of them is *)
(* used up; an entry can expire at any moment.                             *)
(*                                                                         *)
(* Time is a discrete tick.  One tick is one retry_delay of RedisLock; the *)
(* TTL of a key and the elapsed time of an acquire call are counted in     *)
(* ticks.                                                                  *)
(***************************************************************************)
EXTENDS Integers, Sequences, FiniteSets, TLC

\* ------------------------------------------------------------------ bounds
\* number of RedisLock instances, all on the same lock name
NumInst == 2
\* uuid4() values drawn in a run: the acquire calls of all instances together
MaxUuids == 2
\* expire_seconds of RedisLock (60 s in the code), in ticks
ExpireTicks == 2
\* the default timeout of acquire (10.0 s in the code), in ticks
TimeoutTicks == 2

Inst == 1..NumInst
\* no uuid: the value of lock_value before the first acquire, of an absent key
NoToken == <<>>
\* the n-th uuid4() value of the run
Uuid(n) == <<n>>

CacheNs == {"part5", "part6", "part7", "metadata"}
\* the facade operations followed: the three list queries, a count, a metadata
\* enumeration, and the three answer lookups
ListOps == {"get_part5_questions", "get_part6_sets", "get_part7_sets"}
CountOps == {"get_part5_total_count"}
MetaOps == {"get_part5_categories"}
AnswerOps == {"get_part5_answer", "get_part6_answer", "get_part7_answer"}
FacadeOps == ListOps \cup CountOps \cup MetaOps \cup AnswerOps

\* the RedisCache of an operation and its cache_key, for one choice of the
\* parameters.  An answer lookup computes no key and uses none: the entry given
\* for it is the key of the list query of its part.
FacadeKey(op) ==
    CASE op \in {"get_part5_questions", "get_part5_answer"} -> <<"part5", "qs">>
      [] op = "get_part5_total_count" -> <<"part5", "count">>
      [] op = "get_part5_categories" -> <<"metadata", "categories">>
      [] op \in {"get_part6_sets", "get_part6_answer"} -> <<"part6", "sets">>
      [] op \in {"get_part7_sets", "get_part7_answer"} -> <<"part7", "sets">>

\* the cache keys of the store
CacheKeys == {FacadeKey(op) : op \in FacadeOps}
LockKeyName == <<"lock", "name">>
AdminCategories == {"all", "part5", "part6", "part7", "metadata", "token", "lock"}
\* the cache keys written in the runs that exercise the lock
HotKeys == {<<"part5", "qs">>}

\* number of tasks calling the rate limiter at once
NumClients == 2
\* RateLimiter.max_requests (100 by default; 3 in the window example)
max_requests == 3
\* RateLimiter.window_seconds (60 by default), in ticks
WindowTicks == 2
\* is_allowed calls followed within one window
MaxCalls == max_requests + 2

Clients == 1..NumClients
Identifiers == {"ip"}
RateKeys == {<<"ratelimit", id>> : id \in Identifiers}
AllKeys == {LockKeyName} \cup CacheKeys \cup RateKeys
\* an absent counter key; TTL is -2 for an absent key and -1 for a key without expiry
NoCounter == [val |-> 0, ttl |-> 0 - 2]

\* ------------------------------------------------------------------ values
\* A Python value is a record [t, s, v]: its type, the text of a scalar, and
\* the items of a container.  An int carries its numeral, a dict a sequence of
\* entries <<key, value>>.
PyNone == [t |-> "none", s |-> "", v |-> <<>>]
PyBool(b) == [t |-> "bool", s |-> IF b THEN "true" ELSE "false", v |-> <<>>]
PyInt(numeral) == [t |-> "int", s |-> numeral, v |-> <<>>]
PyStr(text) == [t |-> "str", s |-> text, v |-> <<>>]
PyList(items) == [t |-> "list", s |-> "", v |-> items]
PyTuple(items) == [t |-> "tuple", s |-> "", v |-> items]
PySet(items) == [t |-> "set", s |-> "", v |-> items]
PyEntry(key, val) == [t |-> "entry", s |-> "", v |-> <<key, val>>]
PyDict(entries) == [t |-> "dict", s |-> "", v |-> entries]
\* a bson ObjectId
PyOid(hex) == [t |-> "oid", s |-> hex, v |-> <<>>]

\* bool(x)
Truthy(x) ==
    CASE x.t = "none" -> FALSE
      [] x.t = "bool" -> x.s = "true"
      [] x.t = "int" -> x.s # "0"
      [] x.t = "str" -> x.s # ""
      [] x.t \in {"list", "tuple", "set", "dict"} -> Len(x.v) > 0
      [] OTHER -> TRUE

\* the types json.dumps encodes as scalars, and accepts as the key of a dict
JsonScalars == {"none", "bool", "int", "str"}

\* json.dumps(x) raises no TypeError
RECURSIVE Dumpable(_)
Dumpable(x) ==
    CASE x.t \in JsonScalars -> TRUE
      [] x.t \in {"list", "tuple"} -> \A i \in 1..Len(x.v) : Dumpable(x.v[i])
      [] x.t = "dict" ->
           \A i \in 1..Len(x.v) :
               x.v[i].v[1].t \in JsonScalars /\ Dumpable(x.v[i].v[2])
      [] OTHER -> FALSE

\* the name json.dumps writes for the key of a dict
KeyText(key) == IF key.t = "none" THEN "null" ELSE key.s

\* json.dumps(x): the JSON text, as the tree it denotes
RECURSIVE Dumps(_)
Dumps(x) ==
    CASE x.t = "none" -> [t |-> "null", s |-> "", v |-> <<>>]
      [] x.t = "bool" -> [t |-> "boolean", s |-> x.s, v |-> <<>>]
      [] x.t = "int" -> [t |-> "number", s |-> x.s, v |-> <<>>]
      [] x.t = "str" -> [t |-> "string", s |-> x.s, v |-> <<>>]
      [] x.t \in {"list", "tuple"} ->
           [t |-> "array", s |-> "", v |-> [i \in 1..Len(x.v) |-> Dumps(x.v[i])]]
      [] x.t = "dict" ->
           [t |-> "object", s |-> "",
            v |-> [i \in 1..Len(x.v) |->
                     [t |-> "member", s |-> KeyText(x.v[i].v[1]),
                      v |-> <<Dumps(x.v[i].v[2])>>]]]

\* json.loads(data) of a JSON text
RECURSIVE Loads(_)
Loads(data) ==
    CASE data.t = "null" -> PyNone
      [] data.t = "boolean" -> PyBool(data.s = "true")
      [] data.t = "number" -> PyInt(data.s)
      [] data.t = "string" -> PyStr(data.s)
      [] data.t = "array" -> PyList([i \in 1..Len(data.v) |-> Loads(data.v[i])])
      [] data.t = "object" ->
           PyDict([i \in 1..Len(data.v) |->
                     PyEntry(PyStr(data.v[i].s), Loads(data.v[i].v[1]))])

\* str(x): a text that is not JSON
StrOf(x) == [t |-> "text", s |-> "", v |-> <<x>>]

\* the Python string holding that text
TextStr(data) == [t |-> "str", s |-> "text", v |-> data.v]

\* the types RedisCache.set hands to json.dumps
BasicTypes == {"dict", "list", "tuple", "set", "bool", "int", "str", "none"}

\* RedisCache.set: the string stored for a value
Serialize(x) ==
    IF x.t \in BasicTypes
    THEN (IF Dumpable(x) THEN Dumps(x) ELSE StrOf(x))
    ELSE StrOf(x)

\* an absent cache key
NoEntry == <<>>

\* get without json.loads: the stored string as it is
DeserializeMutant(data) ==
    IF data = NoEntry THEN PyNone ELSE [t |-> "str", s |-> "text", v |-> <<data>>]

\* RedisCache.get: None for an absent key, json.loads of the stored string,
\* and the string itself when it is not JSON
Deserialize(data) ==
    IF data = NoEntry THEN PyNone
    ELSE IF data.t = "text" THEN TextStr(data)
    ELSE Loads(data)

\* a document of a Mongo collection, with its ObjectId
Doc == PyDict(<<PyEntry(PyStr("_id"), PyOid("1")), PyEntry(PyStr("text"), PyStr("a"))>>)

\* the values handed to RedisCache.set in the round trips
RoundValues ==
    {PyNone, PyBool(TRUE), PyInt("0"), PyInt("3"), PyStr(""), PyStr("a"),
     PyList(<<>>), PyList(<<PyStr("a"), PyInt("3")>>),
     PyDict(<<>>), PyDict(<<PyEntry(PyStr("k"), PyList(<<PyStr("a")>>))>>),
     PyTuple(<<PyStr("a")>>), PyList(<<PyTuple(<<PyStr("a")>>)>>),
     PyDict(<<PyEntry(PyInt("1"), PyStr("a"))>>),
     PySet(<<PyStr("a")>>), PyList(<<Doc>>), PyOid("1")}
\* the keys of the round trips
RoundKeys == {<<"part5", "qs">>, <<"metadata", "categories">>}

\* the values written in the runs that exercise the clearing
CacheValues == {PyStr("v")}

VARIABLES
    lockKey,      \* value stored under lock:{name}; NoToken when the key is absent
    lockTtl,      \* remaining TTL of lock:{name} in ticks; 0 when absent
    pc,           \* position of each instance's task
    lock_value,   \* RedisLock.lock_value of each instance
    nuuid,        \* uuid4() values drawn so far
    elapsed,      \* time.time() - start_time of the running acquire, saturating
    timeout,      \* timeout of the running acquire: "default", or "inf" (never elapses)
    scoped,       \* the running acquire was called by __aenter__
    ret,          \* result of the instance's last finished acquire or scope
    rel,          \* what the instance's last release() did
    exc,          \* the protected block of the running scope raised
    own,          \* history: the lock each instance last acquired, and its fate
    cache,        \* the cache keys of the store: key -> stored string, or NoEntry
    cttl,         \* the expiry of each cache key: [ex, fresh], or NoEntry
    svc,          \* CachedQueryService.clear_cache in progress
    adm,          \* admin clear-cache endpoint in progress
    rate,         \* the counter keys of the store: identifier -> [val, ttl]
    rpc,          \* position of each client's is_allowed call
    rid,          \* identifier of each client's is_allowed call
    rseen,        \* count read by each client's is_allowed call; 0 for None
    hist,         \* history: results of the is_allowed calls of the current window
    conc,         \* history: two is_allowed calls of the current window overlapped
    rem,          \* result of the last get_remaining
    trip,         \* history: the last RedisCache.set and the get that followed it
    fq,           \* the facade call in progress, or the last one finished
    last,         \* history: the facade call finished before that one
    clr,          \* the clear_cache call of each caller, with its return value
    seq,          \* history: the clear_cache calls returned since the last write
    mw,           \* the request each client has in RateLimitMiddleware.dispatch
    meta,         \* the metadata entry followed, and the call it was last served to
    gate,         \* QueryService._query_semaphore and the raw queries of each task
    rd,           \* the last read command sent through RedisCache, and its reply
    mongo         \* AsyncMongoDBClient, its callers and its health-check tasks

lockVars == <<lockKey, lockTtl, pc, lock_value, nuuid, elapsed, timeout, scoped,
              ret, rel, exc, own>>
cacheVars == <<cache, cttl, svc, adm>>
rateVars == <<rate, rpc, rid, rseen, hist, conc, rem>>
facadeVars == <<trip, fq, last>>
clearVars == <<clr, seq>>
lateVars == <<rd, mongo>>
extVars == <<clearVars, mw, meta, gate, lateVars>>
vars == <<lockKey, lockTtl, pc, lock_value, nuuid, elapsed, timeout, scoped,
          ret, rel, exc, own, cache, cttl, svc, adm,
          rate, rpc, rid, rseen, hist, conc, rem, trip, fq, last, clr, seq, mw, meta, gate, rd, mongo>>

\* ------------------------------------------------------------------- store
\* SET NX without the NX
SetNxMutant(cur, val) == [ok |-> TRUE, val |-> val]

\* SET key value EX ttl NX: writes only when the key is absent
SetNx(cur, val) ==
    IF cur = NoToken THEN [ok |-> TRUE, val |-> val]
                     ELSE [ok |-> FALSE, val |-> cur]

\* the release script without its comparison
ReleaseScriptMutant(cur, arg) ==
    IF cur # NoToken THEN [res |-> 1, val |-> NoToken] ELSE [res |-> 0, val |-> cur]

\* the Lua script of release: get, compare and del as one step of the store
ReleaseScript(cur, arg) ==
    IF cur = arg THEN [res |-> 1, val |-> NoToken]
                 ELSE [res |-> 0, val |-> cur]

\* no RedisCache.set followed so far
NoTrip == [pc |-> "idle"]

\* no facade call so far, and none before the running one
NoCall == [pc |-> "idle"]
NoLast == [op |-> "none"]

\* a facade call at its start: nothing read, fetched, written or returned yet
NewCall(op, use) ==
    [pc |-> "called", op |-> op, use |-> use, cached |-> PyNone,
     res |-> PyNone, out |-> PyNone, raws |-> 0, reads |-> 0, writes |-> 0,
     fault |-> "none", raised |-> FALSE]

\* asyncio.Semaphore(100), scaled down
GateCapacity == 2

\* the tasks that query: one more than the gate admits
Queriers == 1..(GateCapacity + 1)

\* the task has no raw query under way
NoQuery == [pc |-> "idle"]

\* no metadata entry stored, none served
NoMeta == [held |-> <<>>, served |-> <<>>]

\* default_ttl of part5_cache, part6_cache and part7_cache, in seconds
PartTtl == 3600

\* ttl of the count entries
CountTtl == 7200

\* default_ttl of metadata_cache
MetadataTtl == 86400

\* no read command sent so far
NoRead == [cmd |-> "none"]
\* the tasks that call AsyncMongoDBClient.initialize
Callers == {"a", "b", "c"}
\* the health-check tasks that can be alive at a time: the one of
\* _health_check_task and one cancelled before it
Checkers == {"h1", "h2"}
MongoTasks == Callers \cup Checkers
\* a task that has not called initialize, and a health-check task not created
IdleTask == [pc |-> "idle", cancelled |-> FALSE, res |-> "none"]
NoTask == [pc |-> "gone", cancelled |-> FALSE, res |-> "none"]

\* the client has no request in the middleware
NoRequest == [pc |-> "idle"]

\* request.url.path, as its segments
Paths == {<<"api", "v1", "questions", "part5">>, <<"api", "v1", "users">>,
          <<"api", "v1">>}

\* the callers of clear_cache that may run at once
ClearTasks == {"a", "b"}

\* the caller has no clear_cache call running
NoClear == [pc |-> "idle"]

\* clear_cache is not running
SvcIdle == [pc |-> "idle", queue |-> <<>>, todo |-> {}, n |-> 0]

\* ----------------------------------------------------------------- history
\* own[i].st: "never" before the first successful acquire; "held" from a
\* successful acquire on; then "released" (its token was deleted by release),
\* "expired" (expire_seconds after the acquire have passed) or "cleared" (the
\* key was deleted by the admin endpoint before that).  own[i].tok is the
\* token written and own[i].left the ticks left of its expire_seconds.
NoLock(st) == [st |-> st, tok |-> NoToken, left |-> 0]

\* the instance whose token is stored stops holding, for the given reason
Lost(reason) ==
    [i \in Inst |-> IF own[i].st = "held" /\ own[i].tok = lockKey
                    THEN (IF reason = "cleared" THEN [own[i] EXCEPT !.st = reason]
                                                ELSE NoLock(reason))
                    ELSE own[i]]

Init ==
    /\ lockKey = NoToken
    /\ lockTtl = 0
    /\ pc = [i \in Inst |-> "idle"]
    /\ lock_value = [i \in Inst |-> NoToken]
    /\ nuuid = 0
    /\ elapsed = [i \in Inst |-> 0]
    /\ timeout = [i \in Inst |-> "default"]
    /\ scoped = [i \in Inst |-> FALSE]
    /\ ret = [i \in Inst |-> "none"]
    /\ rel = [i \in Inst |-> "none"]
    /\ exc = [i \in Inst |-> FALSE]
    /\ own = [i \in Inst |-> NoLock("never")]
    /\ cache = [k \in CacheKeys |-> NoEntry]
    /\ cttl = [k \in CacheKeys |-> NoEntry]
    /\ svc = SvcIdle
    /\ adm = [pc |-> "idle", cat |-> "all", todo |-> {}, cleared |-> 0]
    /\ rate = [id \in Identifiers |-> NoCounter]
    /\ rpc = [c \in Clients |-> "idle"]
    /\ rid = [c \in Clients |-> "ip"]
    /\ rseen = [c \in Clients |-> 0]
    /\ hist = [id \in Identifiers |-> <<>>]
    /\ conc = [id \in Identifiers |-> FALSE]
    /\ rem = [remaining |-> max_requests, reset_seconds |-> WindowTicks]
    /\ trip = NoTrip
    /\ fq = NoCall
    /\ last = NoLast
    /\ clr = [t \in ClearTasks |-> NoClear]
    /\ seq = <<>>
    /\ mw = [c \in Clients |-> NoRequest]
    /\ meta = NoMeta
    /\ gate = [value |-> GateCapacity, q |-> [t \in Queriers |-> NoQuery]]
    /\ rd = NoRead
    /\ mongo = [initialized |-> FALSE, lock |-> "none", client |-> FALSE,
                up |-> TRUE, ref |-> "none",
                task |-> [t \in MongoTasks |-> IF t \in Callers THEN IdleTask ELSE NoTask]]

\* --------------------------------------------------------------- RedisLock
\* acquire is called: start_time = time.time(); lock_value = uuid4(); the loop
\* condition holds at once (the timeout is positive) and the first SET NX is sent
Start(i, t, sc) ==
    /\ pc[i] = "idle"
    /\ nuuid < MaxUuids
    /\ nuuid' = nuuid + 1
    /\ lock_value' = [lock_value EXCEPT ![i] = Uuid(nuuid + 1)]
    /\ elapsed' = [elapsed EXCEPT ![i] = 0]
    /\ timeout' = [timeout EXCEPT ![i] = t]
    /\ scoped' = [scoped EXCEPT ![i] = sc]
    /\ pc' = [pc EXCEPT ![i] = "acq_set"]
    /\ ret' = [ret EXCEPT ![i] = "none"]
    /\ rel' = [rel EXCEPT ![i] = "none"]
    /\ UNCHANGED <<extVars, facadeVars, lockKey, lockTtl, exc, own, cacheVars, rateVars>>

\* a direct call of acquire(), with the default timeout
AcquireCall(i) == Start(i, "default", FALSE)

\* a direct call of acquire(timeout) with a timeout that does not elapse
AcquireWait(i) == Start(i, "inf", FALSE)

\* __aenter__: success = await self.acquire(), with the default timeout
AEnter(i) == Start(i, "default", TRUE)

\* the loop condition with <= for <
InTimeMutant(i) == timeout[i] = "inf" \/ elapsed[i] <= TimeoutTicks

\* the loop condition of acquire: time.time() - start_time < timeout
InTime(i) == timeout[i] = "inf" \/ elapsed[i] < TimeoutTicks

\* __aenter__ without its check of success
AfterAcquireMutant(sc, success) == IF sc THEN "block" ELSE "idle"

\* where the task is after acquire returned: a direct caller has its result;
\* __aenter__ returns self and the block runs, or raises and nothing runs
AfterAcquire(sc, success) == IF sc /\ success THEN "block" ELSE "idle"

\* what the task has in hand after acquire returned
AcquireResult(sc, success) ==
    IF sc THEN (IF success THEN "none" ELSE "503")
          ELSE (IF success THEN "true" ELSE "false")

\* the store runs SET NX and it succeeds: acquire returns True
AcquireSet(i) ==
    /\ pc[i] = "acq_set"
    /\ SetNx(lockKey, lock_value[i]).ok
    /\ lockKey' = SetNx(lockKey, lock_value[i]).val
    /\ lockTtl' = ExpireTicks
    /\ own' = [own EXCEPT ![i] = [st |-> "held", tok |-> lock_value[i],
                                  left |-> ExpireTicks]]
    /\ pc' = [pc EXCEPT ![i] = AfterAcquire(scoped[i], TRUE)]
    /\ ret' = [ret EXCEPT ![i] = AcquireResult(scoped[i], TRUE)]
    /\ elapsed' = [elapsed EXCEPT ![i] = 0]
    /\ timeout' = [timeout EXCEPT ![i] = "default"]
    /\ scoped' = [scoped EXCEPT ![i] = FALSE]
    /\ UNCHANGED <<extVars, facadeVars, lock_value, nuuid, rel, exc, cacheVars, rateVars>>

\* a loop that gives up after the first failed SET NX
AfterFailedSetMutant(i) == "idle"

\* after a failed SET NX: await asyncio.sleep(retry_delay), then the loop again
AfterFailedSet(i) == "acq_sleep"

\* the store runs SET NX and it fails
AcquireRetry(i) ==
    /\ pc[i] = "acq_set"
    /\ ~SetNx(lockKey, lock_value[i]).ok
    /\ pc' = [pc EXCEPT ![i] = AfterFailedSet(i)]
    /\ UNCHANGED <<extVars, facadeVars, lockKey, lockTtl, lock_value, nuuid, elapsed, timeout, scoped,
                   ret, rel, exc, own, cacheVars, rateVars>>

\* back from the sleep the loop condition holds: the next SET NX is sent
AcquireLoop(i) ==
    /\ pc[i] = "acq_check"
    /\ InTime(i)
    /\ pc' = [pc EXCEPT ![i] = "acq_set"]
    /\ UNCHANGED <<extVars, facadeVars, lockKey, lockTtl, lock_value, nuuid, elapsed, timeout, scoped,
                   ret, rel, exc, own, cacheVars, rateVars>>

\* the loop ends: acquire returns False; __aenter__ raises HTTPException(503)
AcquireTimeout(i) ==
    /\ pc[i] = "acq_check"
    /\ ~InTime(i)
    /\ pc' = [pc EXCEPT ![i] = AfterAcquire(scoped[i], FALSE)]
    /\ ret' = [ret EXCEPT ![i] = AcquireResult(scoped[i], FALSE)]
    /\ elapsed' = [elapsed EXCEPT ![i] = 0]
    /\ timeout' = [timeout EXCEPT ![i] = "default"]
    /\ scoped' = [scoped EXCEPT ![i] = FALSE]
    /\ UNCHANGED <<extVars, facadeVars, lockKey, lockTtl, lock_value, nuuid, rel, exc, own,
                   cacheVars, rateVars>>

\* acquire(timeout) with a timeout of zero or less: self.lock_value is
\* assigned, the while loop is not entered, and False is returned without a
\* SET NX
AcquireNow(i) ==
    /\ pc[i] = "idle"
    /\ nuuid < MaxUuids
    /\ nuuid' = nuuid + 1
    /\ lock_value' = [lock_value EXCEPT ![i] = Uuid(nuuid + 1)]
    /\ ret' = [ret EXCEPT ![i] = AcquireResult(FALSE, FALSE)]
    /\ rel' = [rel EXCEPT ![i] = "none"]
    /\ UNCHANGED <<extVars, facadeVars, lockKey, lockTtl, pc, elapsed, timeout, scoped, exc,
                   own, cacheVars, rateVars>>

\* what release() does to the store and what it reports, for instance i:
\* "nostore" is False without a call of the store, "true" is True, and False
\* after the script ran is "stale" when the key holds another token and
\* "false" when the key is absent
ReleaseEffect(i) ==
    IF lock_value[i] = NoToken
    THEN [val |-> lockKey, rel |-> "nostore"]
    ELSE [val |-> ReleaseScript(lockKey, lock_value[i]).val,
          rel |-> IF ReleaseScript(lockKey, lock_value[i]).res = 1 THEN "true"
                  ELSE IF lockKey = NoToken THEN "false" ELSE "stale"]

\* the part of a step that runs release() for instance i
DoRelease(i) ==
    /\ lockKey' = ReleaseEffect(i).val
    /\ lockTtl' = IF ReleaseEffect(i).val = NoToken THEN 0 ELSE lockTtl
    /\ rel' = [rel EXCEPT ![i] = ReleaseEffect(i).rel]
    /\ own' = IF ReleaseEffect(i).val # lockKey THEN Lost("released") ELSE own

\* a direct call of release()
Release(i) ==
    /\ pc[i] = "idle"
    /\ DoRelease(i)
    /\ ret' = [ret EXCEPT ![i] = "none"]
    /\ UNCHANGED <<extVars, facadeVars, pc, lock_value, nuuid, elapsed, timeout, scoped, exc,
                   cacheVars, rateVars>>

\* the protected block of async with ends, normally or by raising
BlockEnd(i) ==
    /\ pc[i] = "block"
    /\ \E e \in BOOLEAN : exc' = [exc EXCEPT ![i] = e]
    /\ pc' = [pc EXCEPT ![i] = "aexit"]
    /\ UNCHANGED <<extVars, facadeVars, lockKey, lockTtl, lock_value, nuuid, elapsed, timeout, scoped,
                   ret, rel, own, cacheVars, rateVars>>

\* an __aexit__ that returns True
ScopeOutcomeMutant(e) == "ok"

\* what the scope's caller gets: __aexit__ returns None, so the error of the
\* block goes on to the caller
ScopeOutcome(e) == IF e THEN "error" ELSE "ok"

\* __aexit__: logs the error, awaits release()
AExit(i) ==
    /\ pc[i] = "aexit"
    /\ DoRelease(i)
    /\ ret' = [ret EXCEPT ![i] = ScopeOutcome(exc[i])]
    /\ exc' = [exc EXCEPT ![i] = FALSE]
    /\ pc' = [pc EXCEPT ![i] = "idle"]
    /\ UNCHANGED <<extVars, facadeVars, lock_value, nuuid, elapsed, timeout, scoped, cacheVars, rateVars>>

\* ------------------------------------------------------------ keys of the store
\* the keys present in the store
Existing ==
    {k \in {LockKeyName} : lockKey # NoToken}
    \cup {k \in CacheKeys : cache[k] # NoEntry}
    \cup {k \in RateKeys : rate[k[2]] # NoCounter}

\* a pattern that is "*" for every category
MatchMutant(cat) == Existing

\* redis.keys(f"{category}*"); "all" stands for redis.keys("*")
Match(cat) ==
    IF cat = "all" THEN Existing ELSE {k \in Existing : k[1] = cat}

\* a listing that names every key of the prefix, stored or not
CacheKeysOfMutant(ns) == {k \in CacheKeys : k[1] = ns}

\* RedisCache.keys("*") of the cache with the given prefix
CacheKeysOf(ns) == {k \in CacheKeys : k[1] = ns /\ cache[k] # NoEntry}

\* DEL of the keys in S (FLUSHDB when S is every key)
Remove(S) ==
    /\ lockKey' = IF LockKeyName \in S THEN NoToken ELSE lockKey
    /\ lockTtl' = IF LockKeyName \in S THEN 0 ELSE lockTtl
    /\ own' = IF LockKeyName \in S /\ lockKey # NoToken THEN Lost("cleared") ELSE own
    /\ cache' = [k \in CacheKeys |-> IF k \in S THEN NoEntry ELSE cache[k]]
    /\ cttl' = [k \in CacheKeys |-> IF k \in S THEN NoEntry ELSE cttl[k]]
    /\ rate' = [id \in Identifiers |->
                  IF <<"ratelimit", id>> \in S THEN NoCounter ELSE rate[id]]
    /\ hist' = [id \in Identifiers |->
                  IF <<"ratelimit", id>> \in S /\ rate[id] # NoCounter
                  THEN <<>> ELSE hist[id]]
    /\ conc' = [id \in Identifiers |->
                  IF <<"ratelimit", id>> \in S /\ rate[id] # NoCounter
                  THEN Cardinality({c \in Clients : rpc[c] = "got" /\ rid[c] = id}) > 1
                  ELSE conc[id]]

\* -------------------------------------------------------------- RedisCache
\* default_ttl of the RedisCache with the given prefix
default_ttl(ns) == IF ns = "metadata" THEN MetadataTtl ELSE PartTtl

\* the SET of RedisCache.set: the serialized value under the prefixed key, to
\* expire after ttl seconds
SetEntry(k, x, ttl) ==
    /\ cache' = [cache EXCEPT ![k] = Serialize(x)]
    /\ cttl' = [cttl EXCEPT ![k] = [ex |-> ttl, fresh |-> TRUE]]

\* a GET that renews the expiry, as GETEX does
AfterReadMutant(e) == IF e = NoEntry THEN e ELSE [e EXCEPT !.fresh = TRUE]

\* the expiry of a key after GET, EXISTS, TTL or KEYS: as it was
AfterRead(e) == e

\* RedisCache.set(key, value)
CacheSet(k, v) ==
    /\ SetEntry(k, v, default_ttl(k[1]))
    /\ UNCHANGED <<extVars, facadeVars, lockVars, svc, adm, rateVars>>

\* RedisCache.set(key, value), remembered for the get that follows
RoundSet(k, x) ==
    /\ SetEntry(k, x, default_ttl(k[1]))
    /\ trip' = [pc |-> "set", key |-> k, put |-> x, got |-> PyNone]
    /\ UNCHANGED <<extVars, lockVars, svc, adm, rateVars, fq, last>>

\* RedisCache.get(key) of the key last set
RoundGet ==
    /\ trip.pc = "set"
    /\ trip' = [trip EXCEPT !.pc = "got", !.got = Deserialize(cache[trip.key])]
    /\ cttl' = [cttl EXCEPT ![trip.key] = AfterRead(@)]
    /\ UNCHANGED <<extVars, lockVars, cache, svc, adm, rateVars, fq, last>>

\* RedisCache.get(key), called on its own
CacheGet(k) ==
    /\ rd' = [cmd |-> "get", out |-> Deserialize(cache[k])]
    /\ cttl' = [cttl EXCEPT ![k] = AfterRead(@)]
    /\ UNCHANGED <<clearVars, mw, meta, gate, mongo, facadeVars, lockVars, cache, svc, adm, rateVars>>

\* RedisCache.exists(key)
CacheExists(k) ==
    /\ rd' = [cmd |-> "exists", out |-> cache[k] # NoEntry]
    /\ cttl' = [cttl EXCEPT ![k] = AfterRead(@)]
    /\ UNCHANGED <<clearVars, mw, meta, gate, mongo, facadeVars, lockVars, cache, svc, adm, rateVars>>

\* RedisCache.ttl(key): -2 for an absent key, else what is left of its expiry
CacheTtl(k) ==
    /\ rd' = [cmd |-> "ttl",
              out |-> IF cache[k] = NoEntry THEN [ex |-> 0 - 2, fresh |-> TRUE] ELSE cttl[k]]
    /\ cttl' = [cttl EXCEPT ![k] = AfterRead(@)]
    /\ UNCHANGED <<clearVars, mw, meta, gate, mongo, facadeVars, lockVars, cache, svc, adm, rateVars>>

\* RedisCache.keys("*") of the cache with prefix ns
CacheKeysCall(ns) ==
    /\ rd' = [cmd |-> "keys", out |-> CacheKeysOf(ns)]
    /\ cttl' = [k \in CacheKeys |-> IF k[1] = ns THEN AfterRead(cttl[k]) ELSE cttl[k]]
    /\ UNCHANGED <<clearVars, mw, meta, gate, mongo, facadeVars, lockVars, cache, svc, adm, rateVars>>

\* time passes: part of the expiry of a stored key is used up
CacheAge(k) ==
    /\ cttl[k] # NoEntry
    /\ cttl[k].fresh
    /\ cttl' = [cttl EXCEPT ![k].fresh = FALSE]
    /\ UNCHANGED <<extVars, facadeVars, lockVars, cache, svc, adm, rateVars>>

\* ------------------------------------------------------ CachedQueryService
\* every operation goes through the cache
CacheableMutant(op) == TRUE

\* the operations that have a cache-aside branch
Cacheable(op) == op \notin AnswerOps

\* use_cache is ignored
BypassMutant(op, use) == ~Cacheable(op)

\* the call goes straight to query_service
Bypass(op, use) == ~Cacheable(op) \/ ~use

\* the hit test: "if cached is not None" in the counts, "if cached" elsewhere
IsHit(op, cached) == IF op \in CountOps THEN cached # PyNone ELSE Truthy(cached)

\* the guard of the write: "if questions" / "if sets" in the list queries,
\* none in the counts and the metadata enumerations
Writes(op, res) == IF op \in ListOps THEN Truthy(res) ELSE TRUE

\* every write with the default_ttl of its cache
EntryTtlMutant(op) == default_ttl(FacadeKey(op)[1])

\* the ttl of the write: ttl=7200 in the counts, else the cache's default_ttl
EntryTtl(op) == IF op \in CountOps THEN CountTtl ELSE default_ttl(FacadeKey(op)[1])

\* an answer record
AnswerRecord == PyDict(<<PyEntry(PyStr("id"), PyStr("1")), PyEntry(PyStr("answer"), PyStr("a"))>>)

\* what query_service can return
RawResults(op) ==
    CASE op \in ListOps -> {PyList(<<>>), PyList(<<Doc>>)}
      [] op \in CountOps -> {PyInt("0"), PyInt("3")}
      [] op \in MetaOps -> {PyList(<<>>), PyList(<<PyStr("a")>>)}
      [] op \in AnswerOps -> {PyNone, AnswerRecord}

\* a facade operation is called
FacadeCall(op, use) ==
    /\ fq.pc \in {"idle", "done"}
    /\ fq' = [NewCall(op, use) EXCEPT !.pc = IF Bypass(op, use) THEN "raw" ELSE "read"]
    /\ last' = IF fq.pc = "idle" THEN NoLast
               ELSE [op |-> fq.op, out |-> fq.out, wrote |-> fq.writes > 0]
    /\ UNCHANGED <<extVars, lockVars, cacheVars, rateVars, trip>>

\* cached = await cache.get(cache_key); a hit returns cached
FacadeRead ==
    /\ fq.pc = "read"
    /\ LET cached == Deserialize(cache[FacadeKey(fq.op)])
       IN  fq' = [fq EXCEPT !.cached = cached,
                            !.reads = @ + 1,
                            !.pc = IF IsHit(fq.op, cached) THEN "done" ELSE "raw",
                            !.out = IF IsHit(fq.op, cached) THEN cached ELSE @]
    /\ cttl' = [cttl EXCEPT ![FacadeKey(fq.op)] = AfterRead(@)]
    /\ UNCHANGED <<extVars, lockVars, cache, svc, adm, rateVars, trip, last>>

\* the result of query_service arrives; without a write it is returned
FacadeRaw(res) ==
    /\ fq.pc = "raw"
    /\ LET write == ~Bypass(fq.op, fq.use) /\ Writes(fq.op, res)
       IN  fq' = [fq EXCEPT !.res = res,
                            !.raws = @ + 1,
                            !.pc = IF write THEN "write" ELSE "done",
                            !.out = IF write THEN @ ELSE res]
    /\ UNCHANGED <<extVars, lockVars, cacheVars, rateVars, trip, last>>

\* await cache.set(cache_key, result); the result is returned
FacadeWrite ==
    /\ fq.pc = "write"
    /\ SetEntry(FacadeKey(fq.op), fq.res, EntryTtl(fq.op))
    /\ fq' = [fq EXCEPT !.writes = @ + 1, !.pc = "done", !.out = fq.res]
    /\ UNCHANGED <<extVars, lockVars, svc, adm, rateVars, trip, last>>

\* the store fails on the GET: the exception of redis.get leaves RedisCache.get
\* and the facade operation
FacadeReadFail ==
    /\ fq.pc = "read"
    /\ fq' = [fq EXCEPT !.fault = "read", !.raised = TRUE, !.pc = "done"]
    /\ UNCHANGED <<extVars, lockVars, cacheVars, rateVars, trip, last>>

\* the store fails on the SET: the exception of redis.set leaves RedisCache.set
\* and the facade operation
FacadeWriteFail ==
    /\ fq.pc = "write"
    /\ fq' = [fq EXCEPT !.fault = "write", !.raised = TRUE, !.pc = "done"]
    /\ UNCHANGED <<extVars, lockVars, cacheVars, rateVars, trip, last>>

\* --------------------------------------------- CachedQueryService.clear_cache
\* a clear_cache that goes through every category whatever it is asked
ClearQueueMutant(rt) == <<"part5", "part6", "part7", "metadata">>

\* the categories clear_cache(resource_type) goes through
ClearQueue(rt) ==
    IF rt \in CacheNs THEN <<rt>> ELSE <<"part5", "part6", "part7", "metadata">>

\* clear_cache after the keys of the category at the head of queue q were
\* listed as S, with n keys counted before: the loop over S follows, or the
\* next category, or, when neither is left, return len(keys) or the sum
SvcAfter(q, S, n) ==
    IF S = {} /\ Len(q) = 1
    THEN SvcIdle
    ELSE [pc |-> "del", queue |-> q, todo |-> S, n |-> n + Cardinality(S)]

\* clear_cache(resource_type) is called; keys = await cache.keys("*")
SvcClearCall(rt) ==
    /\ svc.pc = "idle"
    /\ svc' = SvcAfter(ClearQueue(rt), CacheKeysOf(Head(ClearQueue(rt))), 0)
    /\ UNCHANGED <<extVars, facadeVars, lockVars, cache, cttl, adm, rateVars>>

\* for key in keys: await cache.delete(key)
SvcDelete(k) ==
    /\ svc.pc = "del"
    /\ k \in svc.todo
    /\ cache' = [cache EXCEPT ![k] = NoEntry]
    /\ cttl' = [cttl EXCEPT ![k] = NoEntry]
    /\ svc' = IF svc.todo = {k} /\ Len(svc.queue) = 1
              THEN SvcIdle
              ELSE [svc EXCEPT !.todo = @ \ {k}]
    /\ UNCHANGED <<extVars, facadeVars, lockVars, adm, rateVars>>

\* the loop of one category is over: the next category's keys are listed
SvcNext ==
    /\ svc.pc = "del"
    /\ svc.todo = {}
    /\ Len(svc.queue) > 1
    /\ svc' = SvcAfter(Tail(svc.queue), CacheKeysOf(svc.queue[2]), svc.n)
    /\ UNCHANGED <<extVars, facadeVars, lockVars, cache, cttl, adm, rateVars>>

\* ------------------------- clear_cache, several callers, with return value
\* the keys clear_cache(resource_type) is to remove
ClearScope(rt) == UNION {CacheKeysOf(ns) : ns \in {ClearQueue(rt)[i] : i \in 1..Len(ClearQueue(rt))}}

\* clear_cache call c with the categories q and the keys S of the first of
\* them left to do: the loop over S, the next category, or the return of
\* len(keys), summed over the categories;  c.n is that count and c.gone the
\* number of DELs that removed a key
ClearAfter(c, q, S) ==
    IF S = {} /\ Len(q) = 1
    THEN [pc |-> "done", rt |-> c.rt, had |-> c.had, ret |-> c.n, gone |-> c.gone]
    ELSE [c EXCEPT !.queue = q, !.todo = S]

\* caller t calls clear_cache(resource_type); keys = await cache.keys("*")
ClearCacheCall(t, rt) ==
    /\ clr[t].pc = "idle"
    /\ Len(seq) < 2
    /\ clr' = [clr EXCEPT ![t] =
                 ClearAfter([pc |-> "del", rt |-> rt, had |-> ClearScope(rt) # {},
                             queue |-> <<>>, todo |-> {}, gone |-> 0,
                             n |-> Cardinality(CacheKeysOf(Head(ClearQueue(rt))))],
                            ClearQueue(rt), CacheKeysOf(Head(ClearQueue(rt))))]
    /\ UNCHANGED <<mw, meta, gate, lateVars, facadeVars, lockVars, cacheVars, rateVars, seq>>

\* for key in keys: await cache.delete(key)
ClearCacheDelete(t, k) ==
    /\ clr[t].pc = "del"
    /\ k \in clr[t].todo
    /\ cache' = [cache EXCEPT ![k] = NoEntry]
    /\ cttl' = [cttl EXCEPT ![k] = NoEntry]
    /\ clr' = [clr EXCEPT ![t] =
                 ClearAfter([clr[t] EXCEPT
                                !.gone = @ + (IF cache[k] # NoEntry THEN 1 ELSE 0)],
                            clr[t].queue, clr[t].todo \ {k})]
    /\ UNCHANGED <<mw, meta, gate, lateVars, facadeVars, lockVars, svc, adm, rateVars, seq>>

\* the loop of one category is over: the next category's keys are listed
ClearCacheNext(t) ==
    /\ clr[t].pc = "del"
    /\ clr[t].todo = {}
    /\ Len(clr[t].queue) > 1
    /\ clr' = [clr EXCEPT ![t] =
                 ClearAfter([clr[t] EXCEPT
                                !.n = @ + Cardinality(CacheKeysOf(clr[t].queue[2]))],
                            Tail(clr[t].queue), CacheKeysOf(clr[t].queue[2]))]
    /\ UNCHANGED <<mw, meta, gate, lateVars, facadeVars, lockVars, cacheVars, rateVars, seq>>

\* the caller takes the returned count; the history keeps it when asked to
ClearCacheReturn(t, keep) ==
    /\ clr[t].pc = "done"
    /\ seq' = IF keep
              THEN Append(seq, [rt |-> clr[t].rt, had |-> clr[t].had, ret |-> clr[t].ret])
              ELSE seq
    /\ clr' = [clr EXCEPT ![t] = NoClear]
    /\ UNCHANGED <<mw, meta, gate, lateVars, facadeVars, lockVars, cacheVars, rateVars>>

\* a facade operation writes an entry: RedisCache.set(key, value)
ClearWrite(k, v) ==
    /\ SetEntry(k, v, default_ttl(k[1]))
    /\ seq' = <<>>
    /\ UNCHANGED <<mw, meta, gate, lateVars, facadeVars, lockVars, svc, adm, rateVars, clr>>

\* the TTL given to an entry by RedisCache.set runs out
ClearExpire(k) ==
    /\ cache[k] # NoEntry
    /\ cache' = [cache EXCEPT ![k] = NoEntry]
    /\ cttl' = [cttl EXCEPT ![k] = NoEntry]
    /\ UNCHANGED <<extVars, facadeVars, lockVars, svc, adm, rateVars>>

\* ------------------------------------------- POST /admin/system/clear-cache
\* category "all" or None: cleared = len(await redis.keys("*"))
AdminCallAll ==
    /\ adm.pc = "idle"
    /\ adm' = [pc |-> "flush", cat |-> "all", todo |-> {},
               cleared |-> Cardinality(Match("all"))]
    /\ UNCHANGED <<extVars, facadeVars, lockVars, cache, cttl, svc, rateVars>>

\* await redis.flushdb(), then the response
AdminFlush ==
    /\ adm.pc = "flush"
    /\ Remove(AllKeys)
    /\ adm' = [pc |-> "idle", cat |-> "all", todo |-> {}, cleared |-> 0]
    /\ UNCHANGED <<extVars, facadeVars, pc, lock_value, nuuid, elapsed, timeout, scoped, ret, rel, exc,
                   svc, rpc, rid, rseen, rem>>

\* a named category: keys = await redis.keys(f"{category}*")
AdminCallCategory(cat) ==
    /\ adm.pc = "idle"
    /\ cat # "all"
    /\ adm' = IF Match(cat) = {}
              THEN [pc |-> "idle", cat |-> "all", todo |-> {}, cleared |-> 0]
              ELSE [pc |-> "del", cat |-> cat, todo |-> Match(cat),
                    cleared |-> Cardinality(Match(cat))]
    /\ UNCHANGED <<extVars, facadeVars, lockVars, cache, cttl, svc, rateVars>>

\* for key in keys: await redis.delete(key); the response after the last key
AdminDelete(k) ==
    /\ adm.pc = "del"
    /\ k \in adm.todo
    /\ Remove({k})
    /\ adm' = IF adm.todo = {k}
              THEN [pc |-> "idle", cat |-> "all", todo |-> {}, cleared |-> 0]
              ELSE [adm EXCEPT !.todo = @ \ {k}]
    /\ UNCHANGED <<extVars, facadeVars, pc, lock_value, nuuid, elapsed, timeout, scoped, ret, rel, exc,
                   svc, rpc, rid, rseen, rem>>

\* ------------------------------------------------------------- RateLimiter
\* the is_allowed calls between their GET and their write
InFlight(id) == {c \in Clients : rpc[c] = "got" /\ rid[c] = id}

\* the model follows at most MaxCalls calls of one window
CallsLeft(id) == Len(hist[id]) + Cardinality(InFlight(id)) < MaxCalls

\* the comparison of is_allowed, off by one
BelowLimitMutant(count) == count <= max_requests

\* int(count) < self.max_requests
BelowLimit(count) == count < max_requests

\* is_allowed: count = await redis.get(key), and the branch taken is a write
ReadEffect(c, id) ==
    /\ rpc[c] = "idle"
    /\ CallsLeft(id)
    /\ rate[id] = NoCounter \/ BelowLimit(rate[id].val)
    /\ rpc' = [rpc EXCEPT ![c] = "got"]
    /\ rid' = [rid EXCEPT ![c] = id]
    /\ rseen' = [rseen EXCEPT ![c] = rate[id].val]
    /\ conc' = [conc EXCEPT ![id] = @ \/ InFlight(id) # {}]
    /\ UNCHANGED <<rate, hist>>

IsAllowedRead(c, id) ==
    /\ ReadEffect(c, id)
    /\ UNCHANGED <<extVars, facadeVars, lockVars, cacheVars, rem>>

\* a denial that counts the request all the same
DenyEffectMutant(c, id) ==
    /\ rpc[c] = "idle"
    /\ CallsLeft(id)
    /\ rate[id] # NoCounter
    /\ rate[id].val >= max_requests
    /\ rate' = [rate EXCEPT ![id].val = @ + 1]
    /\ hist' = [hist EXCEPT ![id] = Append(@, FALSE)]
    /\ conc' = [conc EXCEPT ![id] = @ \/ InFlight(id) # {}]
    /\ UNCHANGED <<rpc, rid, rseen>>

\* is_allowed: the count read is at or above max_requests: return False
DenyEffect(c, id) ==
    /\ rpc[c] = "idle"
    /\ CallsLeft(id)
    /\ rate[id] # NoCounter
    /\ ~BelowLimit(rate[id].val)
    /\ hist' = [hist EXCEPT ![id] = Append(@, FALSE)]
    /\ conc' = [conc EXCEPT ![id] = @ \/ InFlight(id) # {}]
    /\ UNCHANGED <<rate, rpc, rid, rseen>>

IsAllowedDeny(c, id) ==
    /\ DenyEffect(c, id)
    /\ UNCHANGED <<extVars, facadeVars, lockVars, cacheVars, rem>>

\* is_allowed after count is None: redis.set(key, 1, ex=window_seconds); return True
SetEffect(c) ==
    /\ rpc[c] = "got"
    /\ rseen[c] = 0
    /\ rate' = [rate EXCEPT ![rid[c]] = [val |-> 1, ttl |-> WindowTicks]]
    /\ hist' = [hist EXCEPT ![rid[c]] = Append(@, TRUE)]
    /\ rpc' = [rpc EXCEPT ![c] = "idle"]
    /\ UNCHANGED <<rid, rseen, conc>>

IsAllowedSet(c) ==
    /\ SetEffect(c)
    /\ UNCHANGED <<extVars, facadeVars, lockVars, cacheVars, rem>>

\* INCR: adds one; an absent key is created at 1 without expiry
Incr(r) ==
    IF r = NoCounter THEN [val |-> 1, ttl |-> 0 - 1]
                     ELSE [val |-> r.val + 1, ttl |-> r.ttl]

\* is_allowed after a count below the maximum: redis.incr(key); return True
IncrEffect(c) ==
    /\ rpc[c] = "got"
    /\ rseen[c] > 0
    /\ rate' = [rate EXCEPT ![rid[c]] = Incr(@)]
    /\ hist' = [hist EXCEPT ![rid[c]] = Append(@, TRUE)]
    /\ rpc' = [rpc EXCEPT ![c] = "idle"]
    /\ rseen' = [rseen EXCEPT ![c] = 0]
    /\ UNCHANGED <<rid, conc>>

IsAllowedIncr(c) ==
    /\ IncrEffect(c)
    /\ UNCHANGED <<extVars, facadeVars, lockVars, cacheVars, rem>>

\* the subtraction without its clamp at zero
RemainingMutant(count) == max_requests - count

\* max(0, self.max_requests - count)
Remaining(count) == IF max_requests - count > 0 THEN max_requests - count ELSE 0

\* the dictionary get_remaining returns: GET and TTL in one pipeline
RemainingInfo(id) ==
    [remaining |-> Remaining(rate[id].val),
     reset_seconds |-> IF rate[id].ttl > 0 THEN rate[id].ttl ELSE WindowTicks]

\* get_remaining
GetRemaining(id) ==
    /\ rem' = RemainingInfo(id)
    /\ UNCHANGED <<extVars, facadeVars, lockVars, cacheVars, rate, rpc, rid, rseen, hist, conc>>

\* ------------------------------------------- RateLimitMiddleware.dispatch
\* "/api/v1/" in request.url.path: the segments api, v1 and a slash after them
Limited(path) ==
    \E i \in 1..Len(path) - 2 : path[i] = "api" /\ path[i + 1] = "v1"

\* "/api/v1/questions/" in request.url.path
IsPublic(path) ==
    \E i \in 1..Len(path) - 3 :
        path[i] = "api" /\ path[i + 1] = "v1" /\ path[i + 2] = "questions"

\* an announced limit that is not doubled
AnnouncedMutant(path) == max_requests

\* the limit that is announced: twice max_requests on the public endpoints
Announced(path) == IF IsPublic(path) THEN max_requests * 2 ELSE max_requests

\* the headers of the 429 response
DenialHeaders(path, info) ==
    {<<"X-RateLimit-Limit", <<"str", Announced(path)>>>>,
     <<"X-RateLimit-Remaining", <<"str", 0>>>>,
     <<"X-RateLimit-Reset", <<"str", info.reset_seconds>>>>,
     <<"Retry-After", <<"str", info.reset_seconds>>>>}

\* a 429 response without its headers
BareDenialMutant(path, info) == [status |-> 429, headers |-> {}]

\* Response(content=..., status_code=429, headers=headers)
Denial(path, info) == [status |-> 429, headers |-> DenialHeaders(path, info)]

\* the response of call_next returned as it came
StampedMutant(response, path, info) == response

\* response.headers[...] = ...: the three headers set on the handler's response
Stamped(response, path, info) ==
    [response EXCEPT !.headers =
        {h \in @ : h[1] \notin {"X-RateLimit-Limit", "X-RateLimit-Remaining",
                                 "X-RateLimit-Reset"}}
        \cup {<<"X-RateLimit-Limit", <<"str", Announced(path)>>>>,
              <<"X-RateLimit-Remaining", <<"str", info.remaining>>>>,
              <<"X-RateLimit-Reset", <<"str", info.reset_seconds>>>>}]

\* a test that sends every path to the limiter
FirstStepMutant(path) == "check"

\* where dispatch goes first: to the limiter, or straight to call_next
FirstStep(path) == IF Limited(path) THEN "check" ELSE "next"

\* the responses the downstream handler gives
HandlerResponses == {[status |-> 200, headers |-> {<<"Content-Type", <<"str", 0>>>>}]}

\* dispatch(request, call_next) is entered by client c
Dispatch(c, path) ==
    /\ mw[c].pc = "idle"
    /\ rpc[c] = "idle"
    /\ mw' = [mw EXCEPT ![c] =
                [pc |-> FirstStep(path), path |-> path, fwd |-> 0, lim |-> 0,
                 verdict |-> "none", early |-> FALSE,
                 info |-> <<>>, response |-> <<>>]]
    /\ UNCHANGED <<clearVars, meta, gate, lateVars, facadeVars, lockVars, cacheVars, rateVars>>

\* await self.rate_limiter.is_allowed(client_id): the GET, a write to follow
DispatchRead(c) ==
    /\ mw[c].pc = "check"
    /\ ReadEffect(c, "ip")
    /\ mw' = [mw EXCEPT ![c].pc = "write", ![c].lim = @ + 1]
    /\ UNCHANGED <<clearVars, meta, gate, lateVars, facadeVars, lockVars, cacheVars, rem>>

\* is_allowed returns False
DispatchDeny(c) ==
    /\ mw[c].pc = "check"
    /\ DenyEffect(c, "ip")
    /\ mw' = [mw EXCEPT ![c].pc = "denied", ![c].lim = @ + 1, ![c].verdict = "false"]
    /\ UNCHANGED <<clearVars, meta, gate, lateVars, facadeVars, lockVars, cacheVars, rem>>

\* is_allowed writes the counter and returns True
DispatchCount(c) ==
    /\ mw[c].pc = "write"
    /\ SetEffect(c) \/ IncrEffect(c)
    /\ mw' = [mw EXCEPT ![c].pc = "allowed", ![c].verdict = "true"]
    /\ UNCHANGED <<clearVars, meta, gate, lateVars, facadeVars, lockVars, cacheVars, rem>>

\* remaining_info = await self.rate_limiter.get_remaining(client_id); after a
\* denial the 429 response is returned
DispatchRemaining(c) ==
    /\ mw[c].pc \in {"denied", "allowed"}
    /\ mw' = [mw EXCEPT
                ![c].info = RemainingInfo("ip"),
                ![c].lim = @ + 1,
                ![c].response = IF mw[c].pc = "denied"
                                THEN Denial(mw[c].path, RemainingInfo("ip")) ELSE @,
                ![c].pc = IF mw[c].pc = "denied" THEN "done" ELSE "next"]
    /\ UNCHANGED <<clearVars, meta, gate, lateVars, facadeVars, lockVars, cacheVars, rateVars>>

\* response = await call_next(request); returned as it is off the limited paths
DispatchCallNext(c, response) ==
    /\ mw[c].pc = "next"
    /\ mw' = [mw EXCEPT
                ![c].fwd = @ + 1,
                ![c].early = Limited(mw[c].path) /\ mw[c].verdict # "true",
                ![c].response = response,
                ![c].pc = IF Limited(mw[c].path) THEN "back" ELSE "done"]
    /\ UNCHANGED <<clearVars, meta, gate, lateVars, facadeVars, lockVars, cacheVars, rateVars>>

\* the three headers are set and the response is returned
DispatchStamp(c) ==
    /\ mw[c].pc = "back"
    /\ mw' = [mw EXCEPT
                ![c].response = Stamped(@, mw[c].path, mw[c].info),
                ![c].pc = "done"]
    /\ UNCHANGED <<clearVars, meta, gate, lateVars, facadeVars, lockVars, cacheVars, rateVars>>

\* the response has gone out: the client may send its next request
DispatchEnd(c) ==
    /\ mw[c].pc = "done"
    /\ mw' = [mw EXCEPT ![c] = NoRequest]
    /\ UNCHANGED <<clearVars, meta, gate, lateVars, facadeVars, lockVars, cacheVars, rateVars>>

\* ------------------------------- the keys of the metadata enumerations
\* text.split(":") for the texts used as parameters
Split(text) == IF text = "a:b" THEN <<"a", "b">> ELSE <<text>>

\* f"{x}" inside a key: "None" for None, the text itself otherwise
Fmt(x) == IF x = PyNone THEN <<"None">> ELSE Split(x.s)

\* the values given for category, subtype, passage_type and set_type
ParamValues == {PyNone, PyStr("None"), PyStr("a"), PyStr("b"), PyStr("a:b")}

\* the enumerations with parameters that share metadata_cache
MetaCalls ==
    {[op |-> op, args |-> <<x>>] :
        op \in {"get_part5_subtypes", "get_part6_difficulties",
                "get_part7_used_difficulties"},
        x \in ParamValues}
    \cup {[op |-> "get_part5_difficulties", args |-> <<x, y>>] :
            x \in ParamValues, y \in ParamValues}

\* cache_key of the call, split at its colons
MetaCacheKey(call) ==
    CASE call.op = "get_part5_subtypes" -> <<"subtypes">> \o Fmt(call.args[1])
      [] call.op = "get_part5_difficulties" ->
            <<"difficulties">> \o Fmt(call.args[1]) \o Fmt(call.args[2])
      [] call.op = "get_part6_difficulties" -> <<"difficulties">> \o Fmt(call.args[1])
      [] call.op = "get_part7_used_difficulties" ->
            <<"difficulties">> \o Fmt(call.args[1])

\* RedisCache._make_key of metadata_cache: f"{self.prefix}:{key}"
PhysicalKey(call) == <<"metadata">> \o MetaCacheKey(call)

\* the operation misses: the raw collaborator's result for this call is stored
MetaMiss(call) ==
    /\ IF meta.held = <<>> THEN TRUE ELSE meta.held.key # PhysicalKey(call)
    /\ meta' = [held |-> [key |-> PhysicalKey(call), by |-> call], served |-> <<>>]
    /\ UNCHANGED <<clearVars, mw, gate, lateVars, facadeVars, lockVars, cacheVars, rateVars>>

\* the operation finds an entry under its key and returns it
MetaHit(call) ==
    /\ meta.held # <<>>
    /\ meta.held.key = PhysicalKey(call)
    /\ meta' = [meta EXCEPT !.served = [to |-> call, by |-> meta.held.by]]
    /\ UNCHANGED <<clearVars, mw, gate, lateVars, facadeVars, lockVars, cacheVars, rateVars>>

\* the entry expires
MetaExpire ==
    /\ meta.held # <<>>
    /\ meta' = NoMeta
    /\ UNCHANGED <<clearVars, mw, gate, lateVars, facadeVars, lockVars, cacheVars, rateVars>>

\* ------------------------------------------------ QueryService, the gate
\* the kinds of raw query
QueryKinds == {"list", "count", "answer", "distinct"}

\* the methods whose body is under "async with self._query_semaphore"
Gated(kind) == kind = "list"

\* the queries at the document store
Running == {t \in Queriers : gate.q[t].pc = "query"}

\* a method of QueryService is called; a gated one goes to the semaphore
QueryCall(t, kind) ==
    /\ gate.q[t].pc = "idle"
    /\ gate' = [gate EXCEPT !.q[t] = [pc |-> IF Gated(kind) THEN "wait" ELSE "query",
                                      kind |-> kind,
                                      blocked |-> Gated(kind) /\ gate.value = 0]]
    /\ UNCHANGED <<clearVars, mw, meta, lateVars, facadeVars, lockVars, cacheVars, rateVars>>

\* Semaphore.acquire: a slot is taken when one is free, else the task waits
QueryEnter(t) ==
    /\ gate.q[t].pc = "wait"
    /\ gate.value > 0
    /\ gate' = [gate EXCEPT !.value = @ - 1, !.q[t].pc = "query"]
    /\ UNCHANGED <<clearVars, mw, meta, lateVars, facadeVars, lockVars, cacheVars, rateVars>>

\* a gate whose slot comes back only when the query has not failed
AfterExitMutant(kind, failed, value) ==
    IF Gated(kind) /\ ~failed THEN value + 1 ELSE value

\* the value of the semaphore after a query of the given kind is left, by
\* return or by exception: __aexit__ of "async with" releases the slot
AfterExit(kind, failed, value) ==
    IF Gated(kind) THEN value + 1 ELSE value

\* the query returns; leaving "async with" releases the slot
QueryReturn(t) ==
    /\ gate.q[t].pc = "query"
    /\ gate' = [gate EXCEPT
                  !.value = AfterExit(gate.q[t].kind, FALSE, @),
                  !.q[t] = NoQuery]
    /\ UNCHANGED <<clearVars, mw, meta, lateVars, facadeVars, lockVars, cacheVars, rateVars>>

\* the query raises: a list query logs and returns [] from its except clause,
\* inside "async with"; the task remembers the kind of the query that failed
QueryFail(t) ==
    /\ gate.q[t].pc = "query"
    /\ gate' = [gate EXCEPT
                  !.value = AfterExit(gate.q[t].kind, TRUE, @),
                  !.q[t] = [pc |-> "idle", failed |-> gate.q[t].kind]]
    /\ UNCHANGED <<clearVars, mw, meta, lateVars, facadeVars, lockVars, cacheVars, rateVars>>

\* -------------------------------------------------------------------- time
\* one tick passes: TTLs run down, expired keys vanish, sleepers wake
Tick ==
    /\ lockTtl' = IF lockKey # NoToken THEN lockTtl - 1 ELSE 0
    /\ lockKey' = IF lockKey # NoToken /\ lockTtl = 1 THEN NoToken ELSE lockKey
    /\ own' = [i \in Inst |->
                 IF own[i].left = 1 THEN NoLock("expired")
                 ELSE IF own[i].left > 1 THEN [own[i] EXCEPT !.left = @ - 1]
                 ELSE own[i]]
    /\ elapsed' = [i \in Inst |->
                     IF pc[i] \in {"acq_set", "acq_sleep", "acq_check"}
                        /\ timeout[i] = "default"
                        /\ elapsed[i] < TimeoutTicks
                     THEN elapsed[i] + 1 ELSE elapsed[i]]
    /\ pc' = [i \in Inst |-> IF pc[i] = "acq_sleep" THEN "acq_check" ELSE pc[i]]
    /\ rate' = [id \in Identifiers |->
                  IF rate[id].ttl = 1 THEN NoCounter
                  ELSE IF rate[id].ttl > 1 THEN [rate[id] EXCEPT !.ttl = @ - 1]
                  ELSE rate[id]]
    /\ hist' = [id \in Identifiers |-> IF rate[id].ttl = 1 THEN <<>> ELSE hist[id]]
    /\ conc' = [id \in Identifiers |->
                  IF rate[id].ttl = 1 THEN Cardinality(InFlight(id)) > 1
                                      ELSE conc[id]]
    /\ UNCHANGED <<extVars, facadeVars, lock_value, nuuid, timeout, scoped, ret, rel, exc,
                   cacheVars, rpc, rid, rseen, rem>>

\* ---------------------------------------------------------- specifications
\* RedisLock called directly (acquire, release) by NumInst instances, the
\* admin endpoint, and time
Next ==
    \/ \E i \in Inst : AcquireCall(i)
    \/ \E i \in Inst : AcquireSet(i)
    \/ \E i \in Inst : AcquireRetry(i)
    \/ \E i \in Inst : AcquireLoop(i)
    \/ \E i \in Inst : AcquireTimeout(i)
    \/ \E i \in Inst : Release(i)
    \/ AdminCallAll
    \/ AdminFlush
    \/ \E cat \in AdminCategories : AdminCallCategory(cat)
    \/ \E k \in AllKeys : AdminDelete(k)
    \/ Tick

Spec == Init /\ [][Next]_vars

\* RedisLock used as async with by NumInst instances, the admin endpoint, and time
ScopeNext ==
    \/ \E i \in Inst : AEnter(i)
    \/ \E i \in Inst : AcquireSet(i)
    \/ \E i \in Inst : AcquireRetry(i)
    \/ \E i \in Inst : AcquireLoop(i)
    \/ \E i \in Inst : AcquireTimeout(i)
    \/ \E i \in Inst : BlockEnd(i)
    \/ \E i \in Inst : AExit(i)
    \/ AdminCallAll
    \/ AdminFlush
    \/ \E cat \in AdminCategories : AdminCallCategory(cat)
    \/ \E k \in AllKeys : AdminDelete(k)
    \/ Tick

ScopeSpec == Init /\ [][ScopeNext]_vars

\* -------------------------------------------------------- AsyncMongoDBClient
\* every variable but mongo
MongoFrame ==
    UNCHANGED <<clearVars, mw, meta, gate, rd, facadeVars, lockVars, cacheVars, rateVars>>

\* the program point of task t after initialize returned or raised: a caller
\* is done, the health-check task is back at the top of its loop
Back(t) == IF t \in Callers THEN "idle" ELSE "sleep"

\* if self._initialized: return, at the head of initialize
FoundInitialized(m) == m.initialized

\* initialize up to its first await: the early return, or the wait for _lock
InitializeHead(m, t) ==
    IF FoundInitialized(m)
    THEN [m EXCEPT !.task[t].pc = Back(t), !.task[t].res = "early"]
    ELSE [m EXCEPT !.task[t].pc = "lock", !.task[t].res = "none"]

\* a caller calls initialize()
InitializeCall(t) ==
    /\ mongo.task[t].pc = "idle"
    /\ mongo' = InitializeHead(mongo, t)
    /\ MongoFrame

\* an asyncio.Lock that admits a task while another holds it
LockFreeMutant(m) == TRUE

\* asyncio.Lock: acquire returns when no task holds the lock
LockFree(m) == m.lock = "none"

\* async with self._lock: the second look at _initialized, then the client
\* is constructed and the ping is sent
InitializeEnter(t) ==
    /\ mongo.task[t].pc = "lock"
    /\ ~mongo.task[t].cancelled
    /\ LockFree(mongo)
    /\ mongo' = IF mongo.initialized
                THEN [mongo EXCEPT !.task[t].pc = Back(t), !.task[t].res = "second"]
                ELSE [mongo EXCEPT !.lock = t, !.client = TRUE, !.task[t].pc = "ping"]
    /\ MongoFrame

\* _start_health_check: the task of _health_check_task is cancelled unless it
\* is done, and a new task is created in the free place h
StartHealthCheck(m, h) ==
    [m EXCEPT !.task = [u \in MongoTasks |->
                          IF u = h THEN [pc |-> "sleep", cancelled |-> FALSE, res |-> "none"]
                          ELSE IF u = m.ref /\ m.task[u].pc # "gone"
                               THEN [m.task[u] EXCEPT !.cancelled = TRUE]
                               ELSE m.task[u]],
              !.ref = h]

\* the place a new health-check task is created in
FreeChecker(m) == IF m.task["h1"].pc = "gone" THEN "h1" ELSE "h2"

\* the ping is answered: the health check is started, _initialized is set,
\* the lock is released
PingOk(t) ==
    /\ mongo.task[t].pc = "ping"
    /\ ~mongo.task[t].cancelled
    /\ mongo.up
    /\ mongo.task[FreeChecker(mongo)].pc = "gone"
    /\ LET m == StartHealthCheck(mongo, FreeChecker(mongo))
       IN  mongo' = [m EXCEPT !.initialized = TRUE,
                              !.lock = IF @ = t THEN "none" ELSE @,
                              !.task[t].pc = Back(t),
                              !.task[t].res = "ok"]
    /\ MongoFrame

\* the ping raises: the exception is logged and raised again, the lock is
\* released on the way out
PingFail(t) ==
    /\ mongo.task[t].pc = "ping"
    /\ ~mongo.task[t].cancelled
    /\ ~mongo.up
    /\ mongo' = [mongo EXCEPT !.lock = IF @ = t THEN "none" ELSE @,
                              !.task[t].pc = Back(t),
                              !.task[t].res = "raised"]
    /\ MongoFrame

\* health_check_task: the sleep is over; if self._client: the ping is sent
HealthWake(h) ==
    /\ mongo.task[h].pc = "sleep"
    /\ ~mongo.task[h].cancelled
    /\ mongo.client
    /\ mongo' = [mongo EXCEPT !.task[h].pc = "hping"]
    /\ MongoFrame

\* the health-check ping is answered
HealthOk(h) ==
    /\ mongo.task[h].pc = "hping"
    /\ ~mongo.task[h].cancelled
    /\ mongo.up
    /\ mongo' = [mongo EXCEPT !.task[h].pc = "sleep", !.task[h].res = "ok"]
    /\ MongoFrame

\* the health-check ping raises: await self.initialize(self._config)
HealthFail(h) ==
    /\ mongo.task[h].pc = "hping"
    /\ ~mongo.task[h].cancelled
    /\ ~mongo.up
    /\ mongo' = InitializeHead(mongo, h)
    /\ MongoFrame

\* a cancelled health-check task is resumed with CancelledError, which no
\* except clause of it catches: the task ends, leaving the lock if it had it
CancelDeliver(h) ==
    /\ mongo.task[h].pc # "gone"
    /\ mongo.task[h].cancelled
    /\ mongo' = [mongo EXCEPT !.lock = IF @ = h THEN "none" ELSE @,
                              !.task[h] = NoTask]
    /\ MongoFrame

\* close(): the health-check task is cancelled; if self._client: the client
\* is closed and _initialized is reset
MongoClose ==
    /\ mongo' = [mongo EXCEPT
                   !.task = [u \in MongoTasks |->
                               IF u = mongo.ref /\ mongo.task[u].pc # "gone"
                               THEN [mongo.task[u] EXCEPT !.cancelled = TRUE]
                               ELSE mongo.task[u]],
                   !.initialized = IF mongo.client THEN FALSE ELSE @]
    /\ MongoFrame

\* the document store becomes unreachable, or reachable again
StoreFlip ==
    /\ mongo' = [mongo EXCEPT !.up = ~@]
    /\ MongoFrame

\* RedisLock alone, called directly with either kind of timeout
LockNext ==
    \/ \E i \in Inst : AcquireCall(i)
    \/ \E i \in Inst : AcquireWait(i)
    \/ \E i \in Inst : AcquireSet(i)
    \/ \E i \in Inst : AcquireRetry(i)
    \/ \E i \in Inst : AcquireLoop(i)
    \/ \E i \in Inst : AcquireTimeout(i)
    \/ \E i \in Inst : Release(i)
    \/ Tick

\* time passes, the store answers a SET NX that was sent, and the event loop
\* runs a task that is back from its sleep; nothing obliges a task to start a
\* call or to release
LockFairness ==
    /\ WF_vars(Tick)
    /\ \A i \in Inst : WF_vars(AcquireSet(i) \/ AcquireRetry(i))
    /\ \A i \in Inst : WF_vars(AcquireLoop(i) \/ AcquireTimeout(i))

LiveSpec == Init /\ [][LockNext]_vars /\ LockFairness

\* RedisLock with acquire calls of either timeout on an instance, one call
\* after the other
ReacquireNext ==
    \/ LockNext
    \/ \E i \in Inst : AcquireNow(i)

ReacquireSpec == Init /\ [][ReacquireNext]_vars

\* RedisLock together with every operation that deletes keys; the two clearing
\* requests are served one after the other.  Only part5 entries are written
\* here, so of the categories that match no stored key one (token) stands for
\* all: a clearing of any of them returns 0 and leaves the store as it is
ClearNext ==
    \/ \E i \in Inst : AcquireCall(i)
    \/ \E i \in Inst : AcquireSet(i)
    \/ \E i \in Inst : AcquireRetry(i)
    \/ \E i \in Inst : AcquireLoop(i)
    \/ \E i \in Inst : AcquireTimeout(i)
    \/ \E i \in Inst : Release(i)
    \/ \E k \in HotKeys, v \in CacheValues : CacheSet(k, v)
    \/ \E rt \in {"part5", "none"} : adm.pc = "idle" /\ SvcClearCall(rt)
    \/ \E k \in CacheKeys : SvcDelete(k)
    \/ SvcNext
    \/ svc.pc = "idle" /\ AdminCallAll
    \/ AdminFlush
    \/ \E cat \in {"part5", "token", "lock"} : svc.pc = "idle" /\ AdminCallCategory(cat)
    \/ \E k \in AllKeys : AdminDelete(k)
    \/ Tick

ClearSpec == Init /\ [][ClearNext]_vars

\* the rate limiter, the admin endpoint's flush, and time
RateNext ==
    \/ \E c \in Clients, id \in Identifiers : IsAllowedRead(c, id)
    \/ \E c \in Clients, id \in Identifiers : IsAllowedDeny(c, id)
    \/ \E c \in Clients : IsAllowedSet(c)
    \/ \E c \in Clients : IsAllowedIncr(c)
    \/ \E id \in Identifiers : GetRemaining(id)
    \/ AdminCallAll
    \/ AdminFlush
    \/ Tick

RateSpec == Init /\ [][RateNext]_vars

\* RateLimiter alone: NumClients tasks calling is_allowed, get_remaining, and time
WindowNext ==
    \/ \E c \in Clients, id \in Identifiers : IsAllowedRead(c, id)
    \/ \E c \in Clients, id \in Identifiers : IsAllowedDeny(c, id)
    \/ \E c \in Clients : IsAllowedSet(c)
    \/ \E c \in Clients : IsAllowedIncr(c)
    \/ \E id \in Identifiers : GetRemaining(id)
    \/ Tick

WindowSpec == Init /\ [][WindowNext]_vars

\* RedisCache alone: set of a value and get of the same key, nothing in between
RoundNext ==
    \/ \E k \in RoundKeys, x \in RoundValues : RoundSet(k, x)
    \/ RoundGet

RoundSpec == Init /\ [][RoundNext]_vars

\* CachedQueryService called by one task, one operation after the other
FacadeNext ==
    \/ \E op \in FacadeOps, use \in BOOLEAN : FacadeCall(op, use)
    \/ FacadeRead
    \/ fq.pc = "raw" /\ \E res \in RawResults(fq.op) : FacadeRaw(res)
    \/ FacadeWrite

FacadeSpec == Init /\ [][FacadeNext]_vars

\* the same over a store whose commands can fail
FaultNext ==
    \/ FacadeNext
    \/ FacadeReadFail
    \/ FacadeWriteFail

FaultSpec == Init /\ [][FaultNext]_vars

\* requests through the middleware, several at once; time passes between them
FilterNext ==
    \/ \E c \in Clients, path \in Paths : Dispatch(c, path)
    \/ \E c \in Clients : DispatchRead(c)
    \/ \E c \in Clients : DispatchDeny(c)
    \/ \E c \in Clients : DispatchCount(c)
    \/ \E c \in Clients : DispatchRemaining(c)
    \/ \E c \in Clients, response \in HandlerResponses : DispatchCallNext(c, response)
    \/ \E c \in Clients : DispatchStamp(c)
    \/ \E c \in Clients : DispatchEnd(c)
    \/ (\A c \in Clients : mw[c].pc = "idle") /\ Tick

FilterSpec == Init /\ [][FilterNext]_vars

\* the facade, the read commands of RedisCache on their own, and time
TtlNext ==
    \/ \E op \in FacadeOps \ AnswerOps : FacadeCall(op, TRUE)
    \/ FacadeRead
    \/ fq.pc = "raw" /\ \E res \in RawResults(fq.op) : FacadeRaw(res)
    \/ FacadeWrite
    \/ \E k \in RoundKeys : CacheGet(k)
    \/ \E k \in RoundKeys : CacheExists(k)
    \/ \E k \in RoundKeys : CacheTtl(k)
    \/ \E ns \in CacheNs : CacheKeysCall(ns)
    \/ \E k \in RoundKeys : CacheAge(k)

TtlSpec == Init /\ [][TtlNext]_vars

\* the metadata enumerations over one entry of metadata_cache
MetaNext ==
    \/ \E call \in MetaCalls : MetaMiss(call)
    \/ \E call \in MetaCalls : MetaHit(call)
    \/ MetaExpire

MetaSpec == Init /\ [][MetaNext]_vars

\* raw queries of every kind, more tasks than the gate has slots
GateNext ==
    \/ \E t \in Queriers, kind \in QueryKinds : QueryCall(t, kind)
    \/ \E t \in Queriers : QueryEnter(t)
    \/ \E t \in Queriers : QueryReturn(t)
    \/ \E t \in Queriers : QueryFail(t)

GateSpec == Init /\ [][GateNext]_vars

\* every query in flight comes to its end, and asyncio.Semaphore wakes its
\* waiters in the order of their arrival, so that a waiter is not passed over
\* for ever; nothing obliges a task to start a query
GateFairness ==
    /\ \A t \in Queriers : WF_vars(QueryReturn(t) \/ QueryFail(t))
    /\ \A t \in Queriers : SF_vars(QueryEnter(t))

GateLiveSpec == Init /\ [][GateNext]_vars /\ GateFairness

\* the document-store client: callers of initialize, the health check, close,
\* and a store that comes and goes
MongoNext ==
    \/ \E t \in Callers : InitializeCall(t)
    \/ \E t \in MongoTasks : InitializeEnter(t)
    \/ \E t \in MongoTasks : PingOk(t)
    \/ \E t \in MongoTasks : PingFail(t)
    \/ \E h \in Checkers : HealthWake(h)
    \/ \E h \in Checkers : HealthOk(h)
    \/ \E h \in Checkers : HealthFail(h)
    \/ \E h \in Checkers : CancelDeliver(h)
    \/ MongoClose
    \/ StoreFlip

MongoSpec == Init /\ [][MongoNext]_vars

\* clear_cache called again and again, by one caller at a time, while no
\* facade operation writes
TwiceNext ==
    \/ \E t \in ClearTasks, rt \in CacheNs \cup {"none"} :
          (\A u \in ClearTasks : clr[u].pc = "idle") /\ ClearCacheCall(t, rt)
    \/ \E t \in ClearTasks, k \in CacheKeys : ClearCacheDelete(t, k)
    \/ \E t \in ClearTasks : ClearCacheNext(t)
    \/ \E t \in ClearTasks : ClearCacheReturn(t, TRUE)
    \/ \E k \in CacheKeys, v \in CacheValues :
          (\A u \in ClearTasks : clr[u].pc = "idle") /\ ClearWrite(k, v)

TwiceSpec == Init /\ [][TwiceNext]_vars

\* clear_cache calls of several callers at once, among writes and expiries
RaceNext ==
    \/ \E t \in ClearTasks, rt \in CacheNs \cup {"none"} : ClearCacheCall(t, rt)
    \/ \E t \in ClearTasks, k \in CacheKeys : ClearCacheDelete(t, k)
    \/ \E t \in ClearTasks : ClearCacheNext(t)
    \/ \E t \in ClearTasks : ClearCacheReturn(t, FALSE)
    \/ \E k \in CacheKeys, v \in CacheValues : ClearWrite(k, v)
    \/ \E k \in CacheKeys : ClearExpire(k)

RaceSpec == Init /\ [][RaceNext]_vars

\* clear_cache calls, one at a time, in a store that also holds the lock key
\* and a rate-limit counter, among writes of every cache
NamespaceNext ==
    \/ \E t \in ClearTasks, rt \in CacheNs \cup {"none"} :
          (\A u \in ClearTasks : clr[u].pc = "idle") /\ ClearCacheCall(t, rt)
    \/ \E t \in ClearTasks, k \in CacheKeys : ClearCacheDelete(t, k)
    \/ \E t \in ClearTasks : ClearCacheNext(t)
    \/ \E t \in ClearTasks : ClearCacheReturn(t, FALSE)
    \/ \E k \in CacheKeys, v \in CacheValues : ClearWrite(k, v)
    \/ AcquireCall(1)
    \/ AcquireSet(1)
    \/ Release(1)
    \/ \E id \in Identifiers : IsAllowedRead(1, id)
    \/ IsAllowedSet(1)
    \/ IsAllowedIncr(1)

NamespaceSpec == Init /\ [][NamespaceNext]_vars

\* ------------------------------------------------------------------ claims
\* the instances whose acquire returned True, that have not released since,
\* and whose lock is still in the store
Holding == {i \in Inst : own[i].st = "held"}

\* the same, when only expiry counts as the end of a lock
Unexpired == {i \in Inst : own[i].st \in {"held", "cleared"}}

\* instance i is inside acquire
Acquiring(i) == pc[i] \in {"acq_set", "acq_sleep", "acq_check"}

\* C1 as stated: at most one instance has acquired without releasing while its
\* expiry has not elapsed, and lock:{name} then holds exactly its token
C1_Original ==
    /\ Cardinality(Unexpired) <= 1
    /\ \A i \in Unexpired : lockKey = own[i].tok

\* C1 amended: at most one instance has acquired without releasing while its
\* expiry has not elapsed and the admin endpoint has not deleted the key; the
\* key then holds exactly that instance's token, with that acquire's TTL
C1_MutualExclusion ==
    /\ Cardinality(Holding) <= 1
    /\ \A i \in Holding : lockKey = own[i].tok /\ lockTtl = own[i].left

\* one instance holds the lock and another has tried SET NX and failed
C1_Witness ==
    \E i, j \in Inst : i # j /\ own[i].st = "held" /\ pc[j] = "acq_sleep"

\* a step in which instance i runs release() while the key holds a value that
\* is not the token i recorded
StaleRelease(i) ==
    /\ Release(i) \/ AExit(i)
    /\ lockKey # NoToken
    /\ lock_value[i] # lockKey

\* C2: a release by an instance whose recorded token differs from the stored
\* value leaves key, TTL and holder as they are and returns False
C2_OwnershipIsolation ==
    [][\A i \in Inst : StaleRelease(i) =>
          /\ lockKey' = lockKey
          /\ lockTtl' = lockTtl
          /\ own' = own
          /\ rel'[i] \in {"stale", "nostore"}]_vars

\* an instance whose lock expired has released in vain against the lock that
\* another instance holds
C2_Witness ==
    \E i, j \in Inst :
        /\ i # j
        /\ rel[i] = "stale"
        /\ own[i].st = "expired"
        /\ own[j].st = "held"
        /\ lockKey = own[j].tok

\* a step that deletes or overwrites a live lock key, or restarts its TTL
LockTouched == lockKey # NoToken /\ (lockKey' # lockKey \/ lockTtl' > lockTtl)

\* a release by the instance that wrote the stored token
OwnerRelease(i) ==
    /\ Release(i) \/ AExit(i)
    /\ own[i].st = "held"
    /\ own[i].tok = lockKey
    /\ lock_value[i] = lockKey

\* the TTL of the lock key runs out
LockExpiry == Tick /\ lockTtl = 1

\* C3 as stated: a live lock key goes away only by its owner's release or by
\* TTL expiry
C3_Original ==
    [][LockTouched => (\E i \in Inst : OwnerRelease(i)) \/ LockExpiry]_vars

\* C3 amended: ... or by the admin endpoint called with category all, None or lock
C3_Lifecycle ==
    [][LockTouched =>
          \/ \E i \in Inst : OwnerRelease(i)
          \/ LockExpiry
          \/ AdminFlush
          \/ AdminDelete(LockKeyName) /\ adm.cat = "lock"]_vars

\* the global clear_cache of the service has deleted the cache keys it listed
\* and goes on to the next category, while an instance holds the lock, a tick
\* after it acquired it
C3_Witness ==
    /\ \E i \in Inst : own[i].st = "held" /\ lockKey = own[i].tok
                         /\ own[i].left < ExpireTicks
    /\ svc.pc = "del" /\ svc.n > 0 /\ svc.todo = {}

\* the instances whose protected block is executing
InBlock == {i \in Inst : pc[i] = "block"}

\* C4 as stated: two protected blocks never execute at the same time
C4_Original == Cardinality(InBlock) <= 1

\* C4 amended: every executing block belongs to an instance that acquired the
\* lock, and at most one of the executing blocks has a lock that has neither
\* expired nor been deleted by the admin endpoint
C4_BlockExclusion ==
    /\ \A i \in InBlock : own[i].st \in {"held", "expired", "cleared"}
    /\ Cardinality(InBlock \cap Holding) <= 1

\* one block is executing under its lock while another scope waits to enter
C4_Witness ==
    \E i, j \in Inst :
        i # j /\ pc[i] = "block" /\ own[i].st = "held" /\ pc[j] = "acq_sleep" /\ scoped[j]

\* C5: tasks racing for the lock hold it one at a time, and a task that keeps
\* trying (its timeout does not elapse) eventually has acquire return True
C5_Progress ==
    /\ [](Cardinality(Holding) <= 1)
    /\ \A i \in Inst : (Acquiring(i) /\ timeout[i] = "inf") ~> (own[i].st = "held")

\* one task has released and another holds the lock after it
C5_Witness ==
    \E i, j \in Inst :
        i # j /\ own[i].st = "released" /\ rel[i] = "true" /\ own[j].st = "held"

\* acquire of instance i returns in this step
AcquireReturns(i) == Acquiring(i) /\ ~Acquiring(i)'

\* C6: acquire with a finite timeout returns; it returns True exactly on its
\* first successful SET NX; once the timeout has elapsed it sends no further
\* SET NX and returns False, only then, and leaves the key as it is
C6_Terminates ==
    /\ \A i \in Inst : (Acquiring(i) /\ timeout[i] = "default") ~> ~Acquiring(i)
    /\ [][\A i \in Inst :
            /\ AcquireReturns(i) =>
                 \/ /\ lockKey = NoToken /\ lockKey' = lock_value[i]
                    /\ ret'[i] = "true" \/ pc'[i] = "block"
                 \/ /\ timeout[i] = "default" /\ elapsed[i] >= TimeoutTicks
                    /\ ret'[i] \in {"false", "503"}
                    /\ lockKey' = lockKey /\ lockTtl' = lockTtl
            /\ (Acquiring(i) /\ lockKey = NoToken /\ lockKey' = lock_value[i])
                    => AcquireReturns(i)
            /\ (pc[i] = "acq_check" /\ pc'[i] = "acq_set")
                    => (timeout[i] = "inf" \/ elapsed[i] < TimeoutTicks)]_vars

\* acquire has returned False while another instance holds the lock
C6_Witness ==
    \E i \in Inst : ret[i] = "false" /\ lockKey # NoToken /\ lockKey # lock_value[i]

\* C7 as stated: release on an instance that never succeeded at acquire returns
\* False without an operation on the store
C7_Claim ==
    \A i \in Inst : (own[i].st = "never" /\ rel[i] # "none") => rel[i] = "nostore"

\* C8: a scope whose acquire fails raises 503 and never runs its block; a block
\* runs only after the scope's own successful SET NX; when the block ends
\* __aexit__ runs release against the store, the block's error reaches the
\* caller, and the key does not hold the instance's token afterwards
C8_Scoped ==
    [][\A i \in Inst :
         /\ (scoped[i] /\ AcquireReturns(i)) =>
               \/ pc'[i] = "block" /\ lockKey = NoToken /\ lockKey' = lock_value[i]
               \/ pc'[i] = "idle" /\ ret'[i] = "503" /\ lockKey' = lockKey
         /\ (pc'[i] = "block" /\ pc[i] # "block") => (scoped[i] /\ AcquireSet(i))
         /\ (pc[i] = "block" /\ pc'[i] # "block") => pc'[i] = "aexit"
         /\ (pc[i] = "aexit" /\ pc'[i] # "aexit") =>
               /\ pc'[i] = "idle"
               /\ rel'[i] \in {"true", "false", "stale"}
               /\ ret'[i] = (IF exc[i] THEN "error" ELSE "ok")
               /\ lockKey' # lock_value[i]]_vars

\* a scope whose block raised has released its lock and passed the error on,
\* and another scope has failed to start with 503
C8_Witness ==
    \E i, j \in Inst :
        /\ i # j
        /\ ret[i] = "error" /\ rel[i] = "true" /\ lockKey # lock_value[i]
        /\ ret[j] = "503"

\* the results a window has when its calls came one after the other
Sequential(h) == \A k \in 1..Len(h) : h[k] = (k <= max_requests)

\* C9: of the is_allowed calls of one window made one after the other, the
\* first max_requests return True and all later ones False; get_remaining
\* after the max_requests-th call reports remaining 0
C9_Window ==
    [][\A id \in Identifiers :
         /\ ~conc'[id] => Sequential(hist'[id])
         /\ (GetRemaining(id) /\ ~conc[id] /\ Len(hist[id]) >= max_requests)
               => rem'.remaining = 0]_vars

\* max_requests calls were allowed one after the other, the next was denied,
\* and get_remaining has reported 0
C9_Witness ==
    \E id \in Identifiers :
        /\ ~conc[id]
        /\ Len(hist[id]) = max_requests + 1
        /\ ~hist[id][max_requests + 1]
        /\ rem.remaining = 0

\* the calls of the current window that returned True
Allowed(id) == Cardinality({k \in 1..Len(hist[id]) : hist[id][k]})

\* C10 as stated: the stored counter equals the number of calls of the window
\* that returned True
C10_Claim ==
    \A id \in Identifiers : rate[id] # NoCounter => rate[id].val = Allowed(id)

\* C11: while the counter key of an identifier is in the store, no write of an
\* is_allowed call lowers its value or changes its TTL
C11_Claim ==
    [][\A c \in Clients :
          (IsAllowedSet(c) \/ IsAllowedIncr(c)) /\ rate[rid[c]] # NoCounter
          => /\ rate'[rid[c]].val >= rate[rid[c]].val
             /\ rate'[rid[c]].ttl = rate[rid[c]].ttl]_vars

\* C12: a counter at which is_allowed denies runs down to its expiry, so that
\* the window elapses and the next call of the identifier starts a new window
\* (returns True, counter 1, TTL window_seconds)
C12_Claim ==
    \A id \in Identifiers :
        rate[id] # NoCounter /\ ~BelowLimit(rate[id].val) => rate[id].ttl > 0

\* C13: every get_remaining call, whatever the counter and the TTL state of
\* the key, reports remaining = max(0, max_requests - counter), within
\* 0..max_requests, and reset_seconds within 1..window_seconds, the full window
\* when the key is absent or has no TTL, and leaves the store unchanged
C13_Remaining ==
    [][\A id \in Identifiers :
          GetRemaining(id)
          => /\ rem'.remaining =
                  IF rate[id].val >= max_requests THEN 0
                  ELSE max_requests - rate[id].val
             /\ rem'.remaining \in 0..max_requests
             /\ rem'.reset_seconds \in 1..WindowTicks
             /\ rate[id].ttl <= 0 => rem'.reset_seconds = WindowTicks
             /\ rate[id].ttl > 0 => rem'.reset_seconds = rate[id].ttl
             /\ rate' = rate]_vars

\* get_remaining has answered for a counter above max_requests that has no TTL
C13_Witness ==
    \E id \in Identifiers :
        /\ rate[id].val > max_requests
        /\ rate[id].ttl = 0 - 1
        /\ rem = [remaining |-> 0, reset_seconds |-> WindowTicks]

\* a value json.loads can return: None, bool, int, str, list and dict with
\* string keys, of such values
RECURSIVE JsonNative(_)
JsonNative(x) ==
    CASE x.t \in JsonScalars -> TRUE
      [] x.t = "list" -> \A i \in 1..Len(x.v) : JsonNative(x.v[i])
      [] x.t = "dict" ->
           \A i \in 1..Len(x.v) : x.v[i].v[1].t = "str" /\ JsonNative(x.v[i].v[2])
      [] OTHER -> FALSE

Populated(call) == call.reads = 1 /\ call.raws = 1 /\ Truthy(call.res)

\* C15: a cacheable operation called with use_cache=true that finds no entry
\* and gets a non-empty result calls query_service once and writes the result
\* to the cache; the call of the same operation that follows it calls
\* query_service zero times and returns the same payload
C15_Claim ==
    fq.pc = "done" /\ fq.use /\ Cacheable(fq.op) =>
        /\ Populated(fq) =>
              fq.writes = 1 /\ cache[FacadeKey(fq.op)] = Serialize(fq.res)
        /\ last.op = fq.op /\ last.wrote =>
              fq.raws = 0 /\ fq.out = last.out

\* an empty list, an empty mapping or an absent value
Empty(x) == x.t \in {"list", "dict", "none"} /\ ~Truthy(x)

\* C16: once query_service has returned an empty list, an empty mapping or
\* None to a list query or a metadata enumeration, no step of that call
\* changes the set of keys in the store
C16_Claim ==
    [][fq'.pc # "idle" /\ fq'.op \in ListOps \cup MetaOps
          /\ fq'.raws = 1 /\ Empty(fq'.res)
       => Existing' = Existing]_vars

\* C17: when a cacheable operation called with use_cache=true reads an entry
\* under its key, it returns the value of the entry as it is, without calling
\* query_service and without writing to the cache
C17_Claim ==
    [][FacadeRead /\ cache[FacadeKey(fq.op)] # NoEntry
       => /\ fq'.pc = "done"
          /\ fq'.out = Deserialize(cache[FacadeKey(fq.op)])
          /\ fq'.raws = 0
          /\ fq'.writes = 0
          /\ cache' = cache]_vars

\* C18: an answer lookup, whatever use_cache, never reads or writes the cache
\* and leaves the store unchanged at every step, calls query_service exactly
\* once and returns its result; and no cache entry ever holds an answer record
C18_AnswersBypass ==
    [][/\ fq'.pc # "idle" /\ fq'.op \in AnswerOps
          => /\ cache' = cache
             /\ fq'.reads = 0
             /\ fq'.writes = 0
             /\ fq'.pc = "done" => fq'.raws = 1 /\ fq'.out = fq'.res
       /\ \A k \in CacheKeys : cache'[k] # Serialize(AnswerRecord)]_vars

\* an answer lookup has returned a record while the cache holds entries
C18_Witness ==
    /\ fq.pc = "done"
    /\ fq.op \in AnswerOps
    /\ fq.use
    /\ fq.out = AnswerRecord
    /\ \E k \in CacheKeys : cache[k] # NoEntry

\* C19: a cacheable operation called with use_cache=false never reads or
\* writes the cache and leaves the store unchanged at every step, also when an
\* entry exists under its key; it calls query_service exactly once and returns
\* its result
C19_NoCache ==
    [][fq'.pc # "idle" /\ Cacheable(fq'.op) /\ ~fq'.use
       => /\ cache' = cache
          /\ fq'.reads = 0
          /\ fq'.writes = 0
          /\ fq'.pc = "done" => fq'.raws = 1 /\ fq'.out = fq'.res]_vars

\* a call with use_cache=false has returned a result other than the one held
\* in the entry under its key
C19_Witness ==
    /\ fq.pc = "done"
    /\ fq.op \in CountOps
    /\ ~fq.use
    /\ cache[FacadeKey(fq.op)] # NoEntry
    /\ fq.out # Deserialize(cache[FacadeKey(fq.op)])

\* C20: a facade call during which the store failed, on the read or on the
\* write, does not raise: it has called query_service once and returns its
\* result
C20_Claim ==
    fq.pc = "done" /\ fq.fault # "none" =>
        ~fq.raised /\ fq.raws = 1 /\ fq.out = fq.res

\* C29: at most max_requests is_allowed calls of one window return True, and
\* the stored counter never exceeds max_requests
C29_Claim ==
    \A id \in Identifiers :
        /\ Allowed(id) <= max_requests
        /\ rate[id] # NoCounter => rate[id].val <= max_requests

\* C30: every counter key in the store has a TTL, of at most window_seconds
C30_Claim ==
    \A id \in Identifiers :
        rate[id] # NoCounter => rate[id].ttl \in 1..WindowTicks

\* C21: of two clear_cache calls for one category made in a row with no write
\* in between, the first returns a positive count when the category had
\* entries and the second returns 0; after a call no key of the category remains
C21_Claim ==
    /\ \A i \in 1..Len(seq) : seq[i].had => seq[i].ret > 0
    /\ Len(seq) = 2 /\ seq[1].rt = seq[2].rt => seq[2].ret = 0
    /\ seq # <<>> /\ (\A t \in ClearTasks : clr[t].pc = "idle")
          => ClearScope(seq[Len(seq)].rt) = {}

C21_Witness ==
    /\ Len(seq) = 2
    /\ seq[1].rt = "part5" /\ seq[2].rt = "part5"
    /\ seq[1].had /\ seq[1].ret = 2
    /\ seq[2].ret = 0

\* C22: the value clear_cache returns is the number of keys the call removed
C22_Claim ==
    \A t \in ClearTasks : clr[t].pc = "done" => clr[t].ret = clr[t].gone

\* the names of the headers of a response
HeaderNames(response) == {h[1] : h \in response.headers}

\* the values a response has under a header name
HeaderValues(response, name) == {h[2] : h \in {g \in response.headers : g[1] = name}}

\* C23: a request for which is_allowed returned False is never forwarded, and
\* its response is a 429 with X-RateLimit-Limit, X-RateLimit-Remaining 0,
\* X-RateLimit-Reset and a Retry-After equal to X-RateLimit-Reset
C23_Denial ==
    \A c \in Clients :
        mw[c].pc # "idle" /\ mw[c].verdict = "false" =>
            /\ mw[c].fwd = 0
            /\ mw[c].pc \in {"denied", "done"}
            /\ mw[c].pc = "done" =>
                  /\ mw[c].response.status = 429
                  /\ HeaderNames(mw[c].response) =
                        {"X-RateLimit-Limit", "X-RateLimit-Remaining",
                         "X-RateLimit-Reset", "Retry-After"}
                  /\ HeaderValues(mw[c].response, "X-RateLimit-Remaining") = {<<"str", 0>>}
                  /\ Cardinality(HeaderValues(mw[c].response, "X-RateLimit-Reset")) = 1
                  /\ HeaderValues(mw[c].response, "Retry-After") =
                        HeaderValues(mw[c].response, "X-RateLimit-Reset")

C23_Witness ==
    \E c \in Clients :
        /\ mw[c].pc = "done"
        /\ mw[c].verdict = "false"
        /\ mw[c].response.status = 429

\* C24: a request for which is_allowed returned True is forwarded once, after
\* the limiter's write, and the response returned carries the three headers
C24_Admission ==
    \A c \in Clients :
        mw[c].pc # "idle" /\ mw[c].verdict = "true" =>
            /\ ~mw[c].early
            /\ mw[c].fwd = (IF mw[c].pc \in {"back", "done"} THEN 1 ELSE 0)
            /\ mw[c].pc = "done" =>
                  /\ {"X-RateLimit-Limit", "X-RateLimit-Remaining", "X-RateLimit-Reset"}
                        \subseteq HeaderNames(mw[c].response)
                  /\ mw[c].response.status \in {r.status : r \in HandlerResponses}

C24_Witness ==
    \E c \in Clients :
        /\ mw[c].pc = "done"
        /\ mw[c].verdict = "true"
        /\ mw[c].fwd = 1
        /\ "Content-Type" \in HeaderNames(mw[c].response)

\* C25: a request off the limited paths is forwarded once without any call to
\* the limiter, and its response is the handler's, no header added
C25_Bypass ==
    \A c \in Clients :
        mw[c].pc # "idle" /\ ~Limited(mw[c].path) =>
            /\ mw[c].lim = 0
            /\ mw[c].verdict = "none"
            /\ mw[c].pc \in {"next", "done"}
            /\ mw[c].fwd = (IF mw[c].pc = "done" THEN 1 ELSE 0)
            /\ mw[c].pc = "done" => mw[c].response \in HandlerResponses

C25_Witness ==
    \E c \in Clients :
        /\ mw[c].pc = "done"
        /\ mw[c].path = <<"api", "v1">>
        /\ mw[c].fwd = 1
        /\ rate["ip"] # NoCounter

\* C26: a stored cache entry is neither changed nor set again (which would
\* restart its TTL) by a facade operation
C26_Claim ==
    [][\A k \in CacheKeys :
          cache[k] # NoEntry =>
              /\ cache'[k] = cache[k]
              /\ ~(fq.pc = "write" /\ FacadeKey(fq.op) = k /\ fq'.pc = "done"
                   /\ fq'.writes > fq.writes)]_vars

\* C27: an entry of the cache is served only to the operation and parameters
\* it was stored for: no two different calls share a physical key
C27_Claim ==
    meta.served # <<>> => meta.served.to = meta.served.by

\* C28: the raw queries in flight at the document store, of whatever kind,
\* never outnumber the slots of the gate
C28_Claim == Cardinality(Running) <= GateCapacity

\* an is_allowed call for id returns False in this step
Denied(id) ==
    /\ Len(hist'[id]) = Len(hist[id]) + 1
    /\ ~hist'[id][Len(hist'[id])]

\* C31: an is_allowed call that returns False leaves the counter and its TTL
\* as they were
C31_DenialFrame ==
    [][\A id \in Identifiers : Denied(id) => rate'[id] = rate[id]]_vars

\* a call was denied at a counter that is still stored, part of its window gone
C31_Witness ==
    \E id \in Identifiers :
        /\ hist[id] # <<>>
        /\ ~hist[id][Len(hist[id])]
        /\ rate[id] # NoCounter
        /\ rate[id].val >= max_requests
        /\ rate[id].ttl < WindowTicks

ReadSent ==
    IF rd'.cmd # rd.cmd THEN TRUE ELSE rd.cmd # "none" /\ rd'.out # rd.out

\* C33: RedisCache.get, exists, ttl and keys, and the read of a facade call,
\* leave every stored value and every expiry as they were
C33_NoSliding ==
    [][(ReadSent \/ (fq.pc = "read" /\ fq'.pc # "read"))
          => cache' = cache /\ cttl' = cttl]_vars

\* a facade call was served from an entry part of whose expiry was used up,
\* and a get on its own has read such an entry
C33_Witness ==
    /\ fq.pc = "done" /\ fq.reads = 1 /\ fq.raws = 0
    /\ ~cttl[FacadeKey(fq.op)].fresh
    /\ rd.cmd = "get" /\ rd.out # PyNone

\* the TTL of the operation class an entry belongs to
ClassTtl(k) ==
    CASE k[1] = "metadata" -> 86400
      [] k[2] = "count" -> 7200
      [] OTHER -> 3600

\* C35: every entry the facade has written expires after the TTL of its class:
\* 3600 s for lists, 7200 s for counts, 86400 s for metadata enumerations
C35_ClassTtl ==
    \A k \in CacheKeys : cttl[k] # NoEntry => cttl[k].ex = ClassTtl(k)

\* an entry of each class is stored, with a list entry of each part
C35_Witness ==
    \A k \in CacheKeys : cache[k] # NoEntry /\ cttl[k] # NoEntry

\* clear_cache call t lists keys or deletes one in this step
ClearStep(t) ==
    /\ clr'[t].pc # "idle"
    /\ IF clr[t].pc = "del" /\ clr'[t].pc = "del"
       THEN clr'[t].todo # clr[t].todo \/ clr'[t].queue # clr[t].queue
       ELSE clr'[t].pc # clr[t].pc

\* key k is within what clear_cache(rt) is said to clear: the namespace rt
\* names, or the four cache namespaces when rt names none of them
InNamespace(rt, k) == k[1] \in CacheNs /\ (rt \in CacheNs => k[1] = rt)

\* C34: a step of clear_cache(resource_type) leaves every key outside the
\* namespace of resource_type as it was, can only delete a key within it, and
\* never touches the lock key or a rate-limit counter
C34_Namespace ==
    [][\A t \in ClearTasks :
          ClearStep(t) =>
             /\ \A k \in CacheKeys :
                   IF InNamespace(clr'[t].rt, k)
                   THEN cache'[k] \in {cache[k], NoEntry}
                   ELSE cache'[k] = cache[k] /\ cttl'[k] = cttl[k]
             /\ lockKey' = lockKey /\ lockTtl' = lockTtl
             /\ rate' = rate]_vars

\* clear_cache("part5") has returned after deleting a key, in a store that
\* still holds the entries of the other namespaces, the lock key and a
\* rate-limit counter
C34_Witness ==
    \E t \in ClearTasks :
        /\ clr[t].pc = "done" /\ clr[t].rt = "part5" /\ clr[t].gone > 0
        /\ \A k \in CacheKeys : (cache[k] # NoEntry) = (k[1] # "part5")
        /\ lockKey # NoToken
        /\ rate["ip"] # NoCounter

\* the gated queries in flight
GatedRunning == {t \in Running : Gated(gate.q[t].kind)}

\* C36: the slots taken from the gate are those of the gated queries in
\* flight, whether queries return or fail, and a task that waits at the
\* gate comes to run its query
C36_NoLeak ==
    /\ [](GateCapacity - gate.value = Cardinality(GatedRunning))
    /\ \A t \in Queriers : (gate.q[t].pc = "wait") ~> (gate.q[t].pc = "query")

\* a gated query has failed and the gate is whole again but for the slot of
\* a task that had found the gate full and now runs its query
C36_Witness ==
    \E t, u \in Queriers :
        /\ gate.q[t].pc = "idle" /\ gate.q[t] # NoQuery /\ Gated(gate.q[t].failed)
        /\ gate.q[u].pc = "query" /\ gate.q[u].blocked
        /\ gate.value = GateCapacity - 1

\* C37: a release by the instance whose token lock:{name} holds deletes the
\* key and returns true, whatever acquire and release calls came before
C37_Claim ==
    [][\A i \in Inst :
          (Release(i) /\ own[i].st = "held" /\ own[i].tok = lockKey)
             => (lockKey' = NoToken /\ rel'[i] = "true")]_vars

\* the tasks inside the connection-construction section of initialize
Constructing == {t \in MongoTasks : mongo.task[t].pc = "ping"}

\* C38: in every step of the document-store client at most one task is in
\* the construction section afterwards; _initialized turns true only in the
\* step of an answered ping; a task enters the section only when _initialized
\* is false; and a ping that raised leaves _initialized false and the lock free
C38_InitializeOnce ==
    [][/\ Cardinality({t \in MongoTasks : mongo'.task[t].pc = "ping"}) <= 1
       /\ (mongo'.initialized /\ ~mongo.initialized) =>
              \E t \in Constructing : mongo.up /\ mongo'.task[t].res = "ok"
       /\ \A t \in MongoTasks :
              /\ (t \notin Constructing /\ mongo'.task[t].pc = "ping") => ~mongo.initialized
              /\ (t \in Constructing /\ mongo'.task[t].res = "raised") =>
                     ~mongo'.initialized /\ mongo'.lock = "none"]_vars

\* three callers went through initialize at once: one found the store down
\* and raised, one connected, one waited for the lock and found the client
\* initialized
C38_Witness ==
    \E t, u, w \in Callers :
        /\ mongo.task[t].res = "raised"
        /\ mongo.task[u].res = "ok"
        /\ mongo.task[w].res = "second"
        /\ mongo.initialized /\ mongo.lock = "none"

\* the health-check tasks that run: created, not ended and not cancelled
Checking(m) == {h \in Checkers : m.task[h].pc # "gone" /\ ~m.task[h].cancelled}

\* C39: a health-check task whose ping fails goes on to construct a new
\* client, waiting for the lock of initialize if it has to, and at most one
\* health-check task runs at any time
C39_Claim ==
    [][/\ \A h \in Checking(mongo) :
             (mongo.task[h].pc = "hping" /\ ~mongo.up /\ mongo'.task[h].pc # "hping")
                => mongo'.task[h].pc \in {"lock", "ping"}
       /\ Cardinality(Checking(mongo')) <= 1]_vars

====
